---- MODULE Spec2Model ----
(***************************************************************************)
(* Model of netbackup: the backup lifecycle orchestrator (Backup.Run and   *)
(* its callers in main), the transports at the granularity of their       *)
(* executor invocations and temporary files, and the prometheus textfile   *)
(* writer (writeNodeTextFile).                                             *)
(***************************************************************************)
EXTENDS Integers, Sequences, FiniteSets, TLC

(***************************************************************************)
(* Part 1: the orchestrator.                                               *)
(***************************************************************************)

VARIABLES
    config,     \* the parsed configuration (config.Config) and opt.dryrun
    DestDev,    \* config.DestDev, rewritten by Run
    DestDir,    \* config.DestDir, rewritten by Run
    pc,         \* position of the process inside main / Backup.Run
    defers,     \* deferred calls of Backup.Run, last registered last
    calls,      \* trace of the steps taken and external effects invoked
    failed,     \* the steps that returned a failure
    err,        \* the error Backup.Run returns ("" is nil)
    terr,       \* the error the transport's Run returns ("" is nil)
    res,        \* resources that exist outside the process
    killedAt,   \* pc at which a SIGINT/SIGTERM was delivered ("" if none)
    exit,       \* process exit status (-1 while running)
    execs,      \* the executor invocations of the transport, in order
    devs        \* the device each command on a device was given, in order

runVars == <<config, DestDev, DestDir, pc, defers, calls, failed, err, terr,
             res, killedAt, exit, execs, devs>>

\* State of the prometheus textfile and of the processes writing it (Part 2).
VARIABLES
    file,       \* the textfile: its lines, in order
    lock,       \* the process holding the flock on the lockfile, 0 if none
    now,        \* the last value time.Now().Unix() returned
    wpc,        \* position of each writer inside writeNodeTextFile
    wname,      \* the name argument of each writer
    wdata,      \* the lines each writer read from the textfile
    wout,       \* the output each writer rebuilt
    wtemp,      \* content of each writer's temporary file ("none": no file)
    wres        \* what each writer returned ("": still running)

promVars == <<file, lock, now, wpc, wname, wdata, wout, wtemp, wres>>

\* State of one call of Exec (Part 3).
VARIABLES
    xsrc,       \* what the child has yet to write on each stream
    xwritten,   \* what the child has written on each stream
    xpipe,      \* the bytes in each pipe, written and not yet read
    xchild,     \* "none", "running" or "exited"
    xstatus,    \* the wait status word of the exited child
    xbuf,       \* the partial line each bufio.Scanner holds
    xrpc,       \* position of each stream goroutine: "idle", "scan", "done"
    xchan,      \* content of outchan / errchan: "empty", "nil" or "err"
    xlines,     \* the lines each callback was called with, in order
    xfailAt,    \* number of the call at which each callback failed, 0 if none
    xpc,        \* position of Exec and of its caller
    xret,       \* the error Exec returned
    xcode,      \* what ExitCode made of that error
    xrun        \* the error the rsync transport's Run returns

execVars == <<xsrc, xwritten, xpipe, xchild, xstatus, xbuf, xrpc, xchan,
              xlines, xfailAt, xpc, xret, xcode, xrun>>

\* State of one transport, constructed and run on its own (Part 4).
VARIABLES
    ucfg,       \* the configuration handed to the constructor, and dryRun
    upc,        \* "new", "failed", "run", "rerun" or "done"
    uerr,       \* the error the constructor returned ("" is nil)
    uexecs,     \* the command lines handed to the executor, in order
    ulogs,      \* the command lines each call of Run logged
    ufiles,     \* the names of the temporary files created, in order
    ufilter     \* the lines of each combined filter file written

unitVars == <<ucfg, upc, uerr, uexecs, ulogs, ufiles, ufilter>>

\* State of main reading its configuration file (Part 5).
VARIABLES
    raw,        \* the fields of the configuration file
    cpc,        \* "parse", "parsed", "fatal" or "core"
    cerr        \* the error ParseConfig returned ("" is nil)

cfgVars == <<raw, cpc, cerr>>

\* State of one call of RunCommand with its executor (Part 6).
VARIABLES
    rfilter,    \* outFilter and errFilter
    rlines,     \* the lines the executor has yet to hand to each callback
    rgiven,     \* the lines each callback was called with, in order
    rlog,       \* the child output lines logged at verbosity 3, in order
    rcb,        \* what the last callback called returned
    rexec,      \* what e.Exec returned
    rret,       \* what RunCommand returned
    rpc         \* "start", "exec", "finish" or "returned"

cmdVars == <<rfilter, rlines, rgiven, rlog, rcb, rexec, rret, rpc>>

vars == <<runVars, promVars, execVars, unitVars, cfgVars, cmdVars>>

RECURSIVE Decimal(_)
\* fmt's %d verb for a non-negative integer.
Decimal(n) ==
    LET d == <<"0", "1", "2", "3", "4", "5", "6", "7", "8", "9">>[(n % 10) + 1]
    IN IF n < 10 THEN <<d>> ELSE Append(Decimal(n \div 10), d)

\* Transport names accepted by the configuration parser (any non-empty
\* string); "bogus" stands for a name no transport answers to.
Transports == {"rsync", "rclone", "rdiff-backup", "restic", "custom", "bogus"}

\* Exit codes an external transport program is modelled to return.
ExitCodes == {0, 1, 24}

\* Entries of the trace that are a process spawned through the executor.
ExecTags == {"LUKS_OPEN", "FSCK", "TUNE2FS", "MOUNT", "UMOUNT", "LUKS_CLOSE",
             "PRE", "POST", "FAIL", "RSYNC", "RCLONE", "RDIFF", "RDIFF_EXPIRE",
             "RESTIC", "RESTIC_FORGET", "CUSTOM"}

\* Tags of the executor invocations made by a transport.
TransportTags == {"RSYNC", "RCLONE", "RDIFF", "RDIFF_EXPIRE", "RESTIC",
                  "RESTIC_FORGET", "CUSTOM"}

\* Entries of the trace made inside transp.Run(ctx).
TransportEvents == TransportTags \cup {"MKFILTER", "COMMAND", "RMFILTER", "TRANSPORT_RETURN"}

\* Entries of the trace that release a resource.
ReleaseTags == {"UMOUNT", "RMDIR", "LUKS_CLOSE"}

\* Positions inside transp.Run(ctx).
TransportPcs == {"transport", "t_exec", "t_exec2", "t_done"}

ConfigSpace ==
    [dryRun : BOOLEAN,
     SourceIsMountPoint : BOOLEAN,
     dest : {"dir", "dev", "luks"},
     LuksKeyFile : BOOLEAN,
     FSCleanup : BOOLEAN,
     Transport : Transports,
     SourceHost : BOOLEAN,
     DestHost : BOOLEAN,
     PreCommand : BOOLEAN,
     PostCommand : BOOLEAN,
     FailCommand : BOOLEAN,
     Filters : {"none", "include", "exclude", "both"},
     ExpireDays : {0, 1},
     PromTextFile : BOOLEAN,
     CustomCmd : BOOLEAN]

\* The validation switch of ParseConfig over the fields modelled here
\* (a field modelled as BOOLEAN is TRUE when the string is non-empty).
ParseConfigOK(c) ==
    /\ ~(c.dest # "dir" /\ c.DestHost)
    /\ ~(c.dest = "dir" /\ c.FSCleanup)
    /\ ~(c.SourceHost /\ c.SourceIsMountPoint)
    /\ ~(c.dest = "luks" /\ ~c.LuksKeyFile)

\* Fields that nothing reads are left unset: luks_key_file is read by
\* openLuks only, custom_cmd by the custom transport only.
UnreadFieldsUnset(c) ==
    /\ c.LuksKeyFile => c.dest = "luks"
    /\ c.CustomCmd => c.Transport = "custom"

Count(tag, s) == Cardinality({i \in 1..Len(s) : s[i] = tag})

\* The positions of s that hold an element of the set tags.
Positions(tags, s) == {i \in 1..Len(s) : s[i] \in tags}

\* Every entry of s in the set before comes before every entry in the set after.
Before(before, after, s) ==
    \A i \in Positions(before, s), j \in Positions(after, s) : i < j

NoRes == [luks |-> FALSE, mounted |-> FALSE, tmpdir |-> FALSE, filters |-> 0]

RunInit ==
    /\ config \in {c \in ConfigSpace : ParseConfigOK(c) /\ UnreadFieldsUnset(c)}
    /\ DestDev = IF config.dest = "dev" THEN "dev" ELSE ""
    /\ DestDir = IF config.dest = "dir" THEN "dir" ELSE ""
    /\ pc = "main"
    /\ defers = <<>>
    /\ calls = <<>>
    /\ failed = {}
    /\ err = ""
    /\ terr = ""
    /\ res = NoRes
    /\ killedAt = ""
    /\ exit = -1
    /\ execs = <<>>
    /\ devs = <<>>

\* A return statement of Backup.Run: the deferred calls run next.
Return(e) ==
    /\ err' = e
    /\ pc' = "unwind"

\* Step with the return statement left out: the failure is noted and the
\* run goes on.
Step_goesOn(tag, ok, next, e) ==
    /\ pc' = next
    /\ err' = IF ok THEN err ELSE e
    /\ failed' = IF ok THEN failed ELSE failed \cup {tag}

\* A step of Backup.Run that either succeeds and goes on to the position
\* next, or fails and returns the error e.
Step(tag, ok, next, e) ==
    IF ok
    THEN /\ pc' = next
         /\ UNCHANGED <<err, failed>>
    ELSE /\ Return(e)
         /\ failed' = failed \cup {tag}

\* What main does before it calls b.Run: pflag.Parse exits with status 2 on
\* a flag it cannot parse; an error of parseFlags (no --config), of os.Open,
\* of config.ParseConfig (a file that does not decode) or of logOpen ends
\* in log.Fatalf, exit status 1; --version prints the build and exits 0.
MainSteps == {"FLAGS", "PARSEFLAGS", "OPENCONFIG", "PARSECONFIG", "LOGOPEN"}

\* main from parseFlags to NewBackup.
MainStart ==
    /\ pc = "main"
    /\ \E outcome \in MainSteps \cup {"version", "ok"} :
         CASE outcome = "ok" ->
                 pc' = "start" /\ UNCHANGED <<exit, failed>>
           [] outcome = "version" ->
                 pc' = "quit" /\ exit' = 0 /\ UNCHANGED failed
           [] OTHER ->
                 /\ pc' = "quit"
                 /\ exit' = IF outcome = "FLAGS" THEN 2 ELSE 1
                 /\ failed' = failed \cup {outcome}
    /\ UNCHANGED <<promVars, execVars, unitVars, cfgVars, cmdVars, devs, execs, config, DestDev, DestDir, defers, calls, err, terr, res, killedAt>>

\* Backup.Run, the dry-run block: dummy values for DestDev and DestDir.
RunStart ==
    /\ pc = "start"
    /\ IF config.dryRun
       THEN LET dev == IF config.dest = "luks" THEN "dummy_dest_dev" ELSE DestDev
            IN /\ DestDev' = dev
               /\ DestDir' = IF dev # "" THEN "dummy_dest_dir" ELSE DestDir
               /\ pc' = "newtransport"
       ELSE /\ pc' = "checkmount"
            /\ UNCHANGED <<DestDev, DestDir>>
    /\ UNCHANGED <<promVars, execVars, unitVars, cfgVars, cmdVars, devs, execs, config, defers, calls, failed, err, terr, res, killedAt, exit>>

\* CheckMountPoint with the return statements left out: an unmounted
\* source is noted and the run goes on.
CheckMountPoint_noReturn ==
    /\ pc = "checkmount"
    /\ pc' = "openluks"
    /\ IF config.SourceIsMountPoint
       THEN /\ calls' = Append(calls, "ISMOUNTED")
            /\ \E outcome \in {"mounted", "notmounted", "error"} :
                 /\ err' = IF outcome = "mounted" THEN err ELSE "mountpoint"
                 /\ failed' = IF outcome = "mounted" THEN failed
                              ELSE failed \cup {"ISMOUNTED"}
       ELSE UNCHANGED <<calls, err, failed>>
    /\ UNCHANGED <<promVars, execVars, unitVars, cfgVars, cmdVars, devs, execs, config, DestDev, DestDir, defers, terr, res, killedAt, exit>>

\* Backup.Run, source_is_mountpoint: isMounted reads /proc/mounts.
CheckMountPoint ==
    /\ pc = "checkmount"
    /\ IF config.SourceIsMountPoint
       THEN /\ calls' = Append(calls, "ISMOUNTED")
            /\ \E outcome \in {"mounted", "notmounted", "error"} :
                 Step("ISMOUNTED", outcome = "mounted", "openluks", "mountpoint")
       ELSE /\ pc' = "openluks"
            /\ UNCHANGED <<calls, err, failed>>
    /\ UNCHANGED <<promVars, execVars, unitVars, cfgVars, cmdVars, devs, execs, config, DestDev, DestDir, defers, terr, res, killedAt, exit>>

\* Backup.openLuks and the registration of its teardown in Backup.Run.
OpenLuks ==
    /\ pc = "openluks"
    /\ IF config.dest = "luks"
       THEN \E devfileExists \in BOOLEAN, ok \in BOOLEAN :
              IF devfileExists
              THEN /\ Step("DEVFILE", FALSE, "cleanfs", "luks")
                   /\ UNCHANGED <<calls, DestDev, defers, res>>
              ELSE /\ calls' = Append(calls, "LUKS_OPEN")
                   /\ Step("LUKS_OPEN", ok, "cleanfs", "luks")
                   /\ IF ok
                      THEN /\ DestDev' = "mapper"
                           /\ res' = [res EXCEPT !.luks = TRUE]
                           /\ defers' = defers \o <<"closeLuks", "sleep">>
                      ELSE UNCHANGED <<DestDev, defers, res>>
       ELSE /\ pc' = "cleanfs"
            /\ UNCHANGED <<calls, DestDev, defers, res, err, failed>>
    /\ UNCHANGED <<promVars, execVars, unitVars, cfgVars, cmdVars, devs, execs, config, DestDir, terr, killedAt, exit>>

\* A command given the destination device as it is configured just now.
OnDev(tag) == [tag |-> tag, dev |-> DestDev]

\* CleanFilesystem with tune2fs run whatever fsck returned.
CleanFilesystem_tuneAlways ==
    /\ pc = "cleanfs"
    /\ IF config.FSCleanup
       THEN \E fsckOK \in BOOLEAN, tuneOK \in BOOLEAN :
              /\ calls' = calls \o <<"FSCK", "TUNE2FS">>
              /\ devs' = devs \o <<OnDev("FSCK"), OnDev("TUNE2FS")>>
              /\ IF fsckOK
                 THEN Step("TUNE2FS", tuneOK, "mount", "cleanup")
                 ELSE Step("FSCK", FALSE, "mount", "cleanup")
       ELSE /\ pc' = "mount"
            /\ UNCHANGED <<calls, devs, err, failed>>
    /\ UNCHANGED <<promVars, execVars, unitVars, cfgVars, cmdVars, execs, config, DestDev, DestDir, defers, terr, res, killedAt, exit>>

\* Backup.cleanFilesystem: fsck -n, then tune2fs when fsck succeeded.
CleanFilesystem ==
    /\ pc = "cleanfs"
    /\ IF config.FSCleanup
       THEN \E fsckOK \in BOOLEAN, tuneOK \in BOOLEAN :
              IF fsckOK
              THEN /\ calls' = calls \o <<"FSCK", "TUNE2FS">>
                   /\ devs' = devs \o <<OnDev("FSCK"), OnDev("TUNE2FS")>>
                   /\ Step("TUNE2FS", tuneOK, "mount", "cleanup")
              ELSE /\ calls' = Append(calls, "FSCK")
                   /\ devs' = Append(devs, OnDev("FSCK"))
                   /\ Step("FSCK", FALSE, "mount", "cleanup")
       ELSE /\ pc' = "mount"
            /\ UNCHANGED <<calls, devs, err, failed>>
    /\ UNCHANGED <<promVars, execVars, unitVars, cfgVars, cmdVars, execs, config, DestDev, DestDir, defers, terr, res, killedAt, exit>>

\* MountDev without the deferred time.Sleep before umount.
MountDev_noSleep ==
    /\ pc = "mount"
    /\ IF DestDev # ""
       THEN \E tmpOK \in BOOLEAN, ok \in BOOLEAN :
              IF ~tmpOK
              THEN /\ Step("MKTMP", FALSE, "newtransport", "mount")
                   /\ UNCHANGED <<calls, devs, DestDir, defers, res>>
              ELSE /\ calls' = calls \o <<"MKTMP", "MOUNT">>
                   /\ devs' = Append(devs, OnDev("MOUNT"))
                   /\ Step("MOUNT", ok, "newtransport", "mount")
                   /\ IF ok
                      THEN /\ DestDir' = "tmpdir"
                           /\ res' = [res EXCEPT !.tmpdir = TRUE, !.mounted = TRUE]
                           /\ defers' = defers \o <<"rmdir", "umountDev">>
                      ELSE /\ res' = [res EXCEPT !.tmpdir = TRUE]
                           /\ UNCHANGED <<DestDir, defers>>
       ELSE /\ pc' = "newtransport"
            /\ UNCHANGED <<calls, devs, DestDir, defers, res, err, failed>>
    /\ UNCHANGED <<promVars, execVars, unitVars, cfgVars, cmdVars, execs, config, DestDev, terr, killedAt, exit>>

\* MountDev with config.DestDir left as it was after the mount.
MountDev_keepsDestDir ==
    /\ pc = "mount"
    /\ IF DestDev # ""
       THEN \E tmpOK \in BOOLEAN, ok \in BOOLEAN :
              IF ~tmpOK
              THEN /\ Step("MKTMP", FALSE, "newtransport", "mount")
                   /\ UNCHANGED <<calls, devs, DestDir, defers, res>>
              ELSE /\ calls' = calls \o <<"MKTMP", "MOUNT">>
                   /\ devs' = Append(devs, OnDev("MOUNT"))
                   /\ Step("MOUNT", ok, "newtransport", "mount")
                   /\ IF ok
                      THEN /\ DestDir' = DestDir
                           /\ res' = [res EXCEPT !.tmpdir = TRUE, !.mounted = TRUE]
                           /\ defers' = defers \o <<"rmdir", "umountDev", "sleep">>
                      ELSE /\ res' = [res EXCEPT !.tmpdir = TRUE]
                           /\ UNCHANGED <<DestDir, defers>>
       ELSE /\ pc' = "newtransport"
            /\ UNCHANGED <<calls, devs, DestDir, defers, res, err, failed>>
    /\ UNCHANGED <<promVars, execVars, unitVars, cfgVars, cmdVars, execs, config, DestDev, terr, killedAt, exit>>

\* Backup.mountDev and the registration of its teardown in Backup.Run.
MountDev ==
    /\ pc = "mount"
    /\ IF DestDev # ""
       THEN \E tmpOK \in BOOLEAN, ok \in BOOLEAN :
              IF ~tmpOK
              THEN /\ Step("MKTMP", FALSE, "newtransport", "mount")
                   /\ UNCHANGED <<calls, devs, DestDir, defers, res>>
              ELSE /\ calls' = calls \o <<"MKTMP", "MOUNT">>
                   /\ devs' = Append(devs, OnDev("MOUNT"))
                   /\ Step("MOUNT", ok, "newtransport", "mount")
                   /\ IF ok
                      THEN /\ DestDir' = "tmpdir"
                           /\ res' = [res EXCEPT !.tmpdir = TRUE, !.mounted = TRUE]
                           /\ defers' = defers \o <<"rmdir", "umountDev", "sleep">>
                      ELSE /\ res' = [res EXCEPT !.tmpdir = TRUE]
                           /\ UNCHANGED <<DestDir, defers>>
       ELSE /\ pc' = "newtransport"
            /\ UNCHANGED <<calls, devs, DestDir, defers, res, err, failed>>
    /\ UNCHANGED <<promVars, execVars, unitVars, cfgVars, cmdVars, execs, config, DestDev, terr, killedAt, exit>>

\* checkConfig of the transport selected by the switch in Backup.Run.
CheckConfigOK ==
    CASE config.Transport \in {"rsync", "rdiff-backup"} ->
            DestDir # "" /\ ~(config.SourceHost /\ config.DestHost)
      [] config.Transport = "restic" ->
            DestDir # "" /\ config.Filters \notin {"include", "both"} /\ ~config.SourceHost
      [] config.Transport = "rclone" -> DestDir # ""
      [] OTHER -> FALSE

\* Backup.Run, the transport switch.
NewTransport ==
    /\ pc = "newtransport"
    /\ calls' = Append(calls, "NEWTRANSPORT")
    /\ IF config.Transport \in {"rsync", "rclone", "rdiff-backup", "restic"}
       THEN Step("NEWTRANSPORT", CheckConfigOK, "prehook", "newtransport")
       ELSE Step("NEWTRANSPORT", FALSE, "prehook", "unknown")
    /\ UNCHANGED <<promVars, execVars, unitVars, cfgVars, cmdVars, devs, execs, config, DestDev, DestDir, defers, terr, res, killedAt, exit>>

\* PreHook with the return statement left out: a failed pre-command is
\* noted and the transport runs all the same.
PreHook_noReturn ==
    /\ pc = "prehook"
    /\ pc' = "transport"
    /\ IF config.PreCommand /\ ~config.dryRun
       THEN /\ calls' = Append(calls, "PRE")
            /\ \E ok \in BOOLEAN :
                 /\ err' = IF ok THEN err ELSE "pre"
                 /\ failed' = IF ok THEN failed ELSE failed \cup {"PRE"}
       ELSE UNCHANGED <<calls, err, failed>>
    /\ UNCHANGED <<promVars, execVars, unitVars, cfgVars, cmdVars, devs, execs, config, DestDev, DestDir, defers, terr, res, killedAt, exit>>

\* Backup.Run, pre_command.
PreHook ==
    /\ pc = "prehook"
    /\ IF config.PreCommand /\ ~config.dryRun
       THEN /\ calls' = Append(calls, "PRE")
            /\ \E ok \in BOOLEAN : Step("PRE", ok, "transport", "pre")
       ELSE /\ pc' = "transport"
            /\ UNCHANGED <<calls, err, failed>>
    /\ UNCHANGED <<promVars, execVars, unitVars, cfgVars, cmdVars, devs, execs, config, DestDev, DestDir, defers, terr, res, killedAt, exit>>

\* Number of temporary pattern files the selected transport creates:
\* one combined filter file for rsync and rclone, one exclude file for
\* restic, one file per non-empty list for rdiff-backup.
FilesNeeded ==
    CASE config.Transport \in {"rsync", "rclone"} ->
            IF config.Filters # "none" THEN 1 ELSE 0
      [] config.Transport = "restic" ->
            IF config.Filters \in {"exclude", "both"} THEN 1 ELSE 0
      [] config.Transport = "rdiff-backup" ->
            CASE config.Filters = "none" -> 0
              [] config.Filters = "both" -> 2
              [] OTHER -> 1
      [] OTHER -> 0

\* Tag of the main executor invocation of the selected transport.
MainTag ==
    CASE config.Transport = "rsync" -> "RSYNC"
      [] config.Transport = "rclone" -> "RCLONE"
      [] config.Transport = "restic" -> "RESTIC"
      [] config.Transport = "rdiff-backup" -> "RDIFF"
      [] OTHER -> "CUSTOM"

\* Tag of the second (expiration) invocation.
ExpireTag == IF config.Transport = "restic" THEN "RESTIC_FORGET" ELSE "RDIFF_EXPIRE"

\* The error a transport makes of the exit code of its program: rsync
\* promotes 24 to success, every other non-zero code is a failure.
ExitError(rc) ==
    IF rc = 0 \/ (config.Transport = "rsync" /\ rc = 24) THEN "" ELSE "exec"

\* TransportBegin without the dry-run test before the executor.
TransportBegin_ignoresDryRun ==
    /\ pc = "transport"
    /\ \E created \in 0..FilesNeeded :
         /\ res' = [res EXCEPT !.filters = created]
         /\ IF created < FilesNeeded
            THEN /\ calls' = calls \o [i \in 1..created |-> "MKFILTER"]
                 /\ terr' = "filter"
                 /\ pc' = "t_done"
            ELSE /\ calls' = calls \o [i \in 1..created |-> "MKFILTER"] \o <<"COMMAND">>
                 /\ terr' = ""
                 /\ pc' = "t_exec"
    /\ UNCHANGED <<promVars, execVars, unitVars, cfgVars, cmdVars, devs, execs, config, DestDev, DestDir, defers, failed, err, killedAt, exit>>

\* transp.Run, first part: the pattern files are written, the command is
\* logged, and a dry-run skips the executor.
TransportBegin ==
    /\ pc = "transport"
    /\ \E created \in 0..FilesNeeded :
         /\ res' = [res EXCEPT !.filters = created]
         /\ IF created < FilesNeeded
            THEN /\ calls' = calls \o [i \in 1..created |-> "MKFILTER"]
                 /\ terr' = "filter"
                 /\ pc' = "t_done"
            ELSE /\ calls' = calls \o [i \in 1..created |-> "MKFILTER"] \o <<"COMMAND">>
                 /\ terr' = ""
                 /\ pc' = IF config.dryRun THEN "t_done" ELSE "t_exec"
    /\ UNCHANGED <<promVars, execVars, unitVars, cfgVars, cmdVars, devs, execs, config, DestDev, DestDir, defers, failed, err, killedAt, exit>>

\* A token of an argument vector: a fixed string, or a format (opt) filled
\* with a value (val, a sequence of strings).
Tok(s) == [opt |-> s, val |-> <<>>]
Opt(s, v) == [opt |-> s, val |-> v]

\* config.SourceDir, and the name writeList returns for a file it created.
SourceDir == "/source"
TempFileName(prefix) == "/tmp/" \o prefix

\* buildSource and buildDest with the separator sep.
BuildSource(sep) ==
    IF config.SourceHost THEN Opt("sourcehost" \o sep, <<SourceDir>>) ELSE Tok(SourceDir)
BuildDest(sep) ==
    IF config.DestHost THEN Opt("desthost" \o sep, <<DestDir>>) ELSE Tok(DestDir)

\* Exclude and Include are non-empty.
HasExclude == config.Filters \in {"exclude", "both"}
HasInclude == config.Filters \in {"include", "both"}

\* RsyncTransport.Run, the command line (the source ends with a slash).
RsyncArgv ==
    <<Tok("rsync"), Tok("-avAXH"), Tok("--delete"), Tok("--numeric-ids")>>
    \o (IF config.Filters # "none"
        THEN <<Opt("--filter=merge ", <<TempFileName("filter")>>)>> ELSE <<>>)
    \o (IF HasExclude THEN <<Tok("--delete-excluded")>> ELSE <<>>)
    \o <<Opt(BuildSource(":").opt, BuildSource(":").val \o <<"/">>), BuildDest(":")>>

\* RcloneTransport.Run, the command line.
RcloneArgv ==
    <<Tok("rclone"), Tok("sync"), Tok("-v")>>
    \o (IF config.Filters # "none"
        THEN <<Opt("--filter-from=", <<TempFileName("filter")>>)>> ELSE <<>>)
    \o <<BuildSource(":"), BuildDest(":")>>

\* ResticTransport.Run, the backup command line.  The excludeFile of the
\* Sprintf is the variable declared in the var block of Run; the name
\* writeList returns is assigned to another variable of the same name,
\* declared with := inside the if block, so the outer one is still "".
ResticArgv ==
    LET excludeFile == "" IN
    <<Tok("restic"), Tok("-v"), Tok("-v")>>
    \o (IF HasExclude THEN <<Opt("--exclude-file=", <<excludeFile>>)>> ELSE <<>>)
    \o <<Tok("--repo"), BuildDest(":"), Tok("backup"), Tok(SourceDir)>>

\* ResticTransport.Run, the expiration command line: appended to cmd, the
\* slice that holds the backup command line.
ResticForgetArgv ==
    ResticArgv \o <<Tok("forget"),
                    Opt("--keep-within=", Decimal(config.ExpireDays) \o <<"d">>),
                    Tok("--prune")>>

\* RdiffBackupTransport.Run, the command line of the copy.
RdiffArgv ==
    <<Tok("rdiff-backup"), Tok("--verbosity=5"), Tok("--terminal-verbosity=5"),
      Tok("--preserve-numerical-ids"), Tok("--exclude-sockets"),
      Tok("--exclude-other-filesystems"), Tok("--force")>>
    \o (IF HasExclude
        THEN <<Opt("--exclude-globbing-filelist=", <<TempFileName("exclude")>>)>> ELSE <<>>)
    \o (IF HasInclude
        THEN <<Opt("--include-globbing-filelist=", <<TempFileName("include")>>)>> ELSE <<>>)
    \o <<BuildSource("::"), BuildDest("::")>>

\* RdiffBackupTransport.Run, the command line that removes older files.
RdiffExpireArgv ==
    <<Tok("rdiff-backup"),
      Opt("--remove-older-than=", Decimal(config.ExpireDays) \o <<"D">>),
      Tok("--force"), BuildDest("::")>>

\* CustomTransport.Run: execute.WithShell(config.CustomCmd).
CustomArgv == <<Tok("$SHELL"), Tok("-c"), Tok("--"), Tok("custom_cmd")>>

\* Command line of the main invocation of the selected transport.
MainArgv ==
    CASE config.Transport = "rsync" -> RsyncArgv
      [] config.Transport = "rclone" -> RcloneArgv
      [] config.Transport = "restic" -> ResticArgv
      [] config.Transport = "rdiff-backup" -> RdiffArgv
      [] OTHER -> CustomArgv

\* Command line of the expiration invocation.
ExpireArgv == IF config.Transport = "restic" THEN ResticForgetArgv ELSE RdiffExpireArgv

\* One invocation of the executor: its tag, its command line, the exit code
\* of the program and the number of temporary pattern files existing then.
Invocation(tag, argv, rc) == [tag |-> tag, argv |-> argv, rc |-> rc, files |-> res.filters]

\* TransportExec going on to the expiration whatever the main invocation
\* returned.
TransportExec_expiresOnFailure ==
    /\ pc = "t_exec"
    /\ calls' = Append(calls, MainTag)
    /\ \E rc \in ExitCodes :
         /\ execs' = Append(execs, Invocation(MainTag, MainArgv, rc))
         /\ terr' = ExitError(rc)
         /\ pc' = IF config.ExpireDays # 0
                     /\ config.Transport \in {"restic", "rdiff-backup"}
                  THEN "t_exec2" ELSE "t_done"
    /\ UNCHANGED <<promVars, execVars, unitVars, cfgVars, cmdVars, devs, config, DestDev, DestDir, defers, failed, err, res, killedAt, exit>>

\* transp.Run, the main invocation through the executor; restic and
\* rdiff-backup go on to the expiration when it succeeded and a number of
\* days is configured.
TransportExec ==
    /\ pc = "t_exec"
    /\ calls' = Append(calls, MainTag)
    /\ \E rc \in ExitCodes :
         /\ execs' = Append(execs, Invocation(MainTag, MainArgv, rc))
         /\ terr' = ExitError(rc)
         /\ pc' = IF ExitError(rc) = "" /\ config.ExpireDays # 0
                     /\ config.Transport \in {"restic", "rdiff-backup"}
                  THEN "t_exec2" ELSE "t_done"
    /\ UNCHANGED <<promVars, execVars, unitVars, cfgVars, cmdVars, devs, config, DestDev, DestDir, defers, failed, err, res, killedAt, exit>>

\* transp.Run, the expiration invocation of restic and rdiff-backup.
TransportExpire ==
    /\ pc = "t_exec2"
    /\ calls' = Append(calls, ExpireTag)
    /\ \E rc \in ExitCodes :
         /\ execs' = Append(execs, Invocation(ExpireTag, ExpireArgv, rc))
         /\ terr' = ExitError(rc)
         /\ pc' = "t_done"
    /\ UNCHANGED <<promVars, execVars, unitVars, cfgVars, cmdVars, devs, config, DestDev, DestDir, defers, failed, err, res, killedAt, exit>>

\* TransportFinish with the deferred os.Remove calls left out.
TransportFinish_keepsFiles ==
    /\ pc = "t_done"
    /\ calls' = Append(calls, "TRANSPORT_RETURN")
    /\ Step("TRANSPORT", terr = "", "posthook", "transport")
    /\ UNCHANGED <<promVars, execVars, unitVars, cfgVars, cmdVars, devs, execs, config, DestDev, DestDir, defers, terr, res, killedAt, exit>>

\* TransportFinish with the return statement left out: a failed transport
\* is noted and the post-command is still reached.
TransportFinish_noReturn ==
    /\ pc = "t_done"
    /\ res' = [res EXCEPT !.filters = 0]
    /\ calls' = calls \o [i \in 1..res.filters |-> "RMFILTER"] \o <<"TRANSPORT_RETURN">>
    /\ pc' = "posthook"
    /\ err' = IF terr = "" THEN err ELSE "transport"
    /\ failed' = IF terr = "" THEN failed ELSE failed \cup {"TRANSPORT"}
    /\ UNCHANGED <<promVars, execVars, unitVars, cfgVars, cmdVars, devs, execs, config, DestDev, DestDir, defers, terr, killedAt, exit>>

\* transp.Run returns: its deferred os.Remove calls run, and Backup.Run
\* returns the transport's failure or goes on to the post-command.
TransportFinish ==
    /\ pc = "t_done"
    /\ res' = [res EXCEPT !.filters = 0]
    /\ calls' = calls \o [i \in 1..res.filters |-> "RMFILTER"] \o <<"TRANSPORT_RETURN">>
    /\ Step("TRANSPORT", terr = "", "posthook", "transport")
    /\ UNCHANGED <<promVars, execVars, unitVars, cfgVars, cmdVars, devs, execs, config, DestDev, DestDir, defers, terr, killedAt, exit>>

\* Backup.Run, post_command, and the final return nil.
PostHook ==
    /\ pc = "posthook"
    /\ IF config.PostCommand /\ ~config.dryRun
       THEN /\ calls' = Append(calls, "POST")
            /\ \E ok \in BOOLEAN : Step("POST", ok, "unwind", "post")
       ELSE /\ pc' = "unwind"
            /\ UNCHANGED <<calls, err, failed>>
    /\ UNCHANGED <<promVars, execVars, unitVars, cfgVars, cmdVars, devs, execs, config, DestDev, DestDir, defers, terr, res, killedAt, exit>>

\* RunDefer running the deferred calls in the order of registration.
RunDefer_fifo ==
    /\ pc = "unwind"
    /\ defers # <<>>
    /\ LET d == Head(defers) IN
         /\ defers' = Tail(defers)
         /\ CASE d = "sleep" ->
                   /\ calls' = Append(calls, "SLEEP")
                   /\ UNCHANGED <<res, failed, devs>>
              [] d = "umountDev" ->
                   /\ calls' = Append(calls, "UMOUNT")
                   /\ devs' = Append(devs, OnDev("UMOUNT"))
                   /\ \E ok \in BOOLEAN :
                        /\ res' = [res EXCEPT !.mounted = IF ok THEN FALSE ELSE @]
                        /\ failed' = IF ok THEN failed ELSE failed \cup {"UMOUNT"}
              [] d = "rmdir" ->
                   /\ calls' = Append(calls, "RMDIR")
                   /\ UNCHANGED devs
                   /\ res' = [res EXCEPT !.tmpdir = res.mounted]
                   /\ failed' = IF res.mounted THEN failed \cup {"RMDIR"} ELSE failed
              [] d = "closeLuks" ->
                   /\ calls' = Append(calls, "LUKS_CLOSE")
                   /\ devs' = Append(devs, OnDev("LUKS_CLOSE"))
                   /\ \E ok \in BOOLEAN :
                        /\ res' = [res EXCEPT !.luks = IF ok /\ ~res.mounted THEN FALSE ELSE @]
                        /\ failed' = IF ok /\ ~res.mounted THEN failed
                                     ELSE failed \cup {"LUKS_CLOSE"}
    /\ UNCHANGED <<promVars, execVars, unitVars, cfgVars, cmdVars, execs, config, DestDev, DestDir, pc, err, terr, killedAt, exit>>

\* RunDefer with the deferred calls left undone after one of them failed.
RunDefer_stopsOnFailure ==
    /\ pc = "unwind"
    /\ defers # <<>>
    /\ LET d == defers[Len(defers)] IN
         /\ CASE d = "sleep" ->
                   /\ calls' = Append(calls, "SLEEP")
                   /\ UNCHANGED <<res, failed, devs>>
              [] d = "umountDev" ->
                   /\ calls' = Append(calls, "UMOUNT")
                   /\ devs' = Append(devs, OnDev("UMOUNT"))
                   /\ \E ok \in BOOLEAN :
                        /\ res' = [res EXCEPT !.mounted = IF ok THEN FALSE ELSE @]
                        /\ failed' = IF ok THEN failed ELSE failed \cup {"UMOUNT"}
              [] d = "rmdir" ->
                   /\ calls' = Append(calls, "RMDIR")
                   /\ UNCHANGED devs
                   /\ res' = [res EXCEPT !.tmpdir = res.mounted]
                   /\ failed' = IF res.mounted THEN failed \cup {"RMDIR"} ELSE failed
              [] d = "closeLuks" ->
                   /\ calls' = Append(calls, "LUKS_CLOSE")
                   /\ devs' = Append(devs, OnDev("LUKS_CLOSE"))
                   /\ \E ok \in BOOLEAN :
                        /\ res' = [res EXCEPT !.luks = IF ok /\ ~res.mounted THEN FALSE ELSE @]
                        /\ failed' = IF ok /\ ~res.mounted THEN failed
                                     ELSE failed \cup {"LUKS_CLOSE"}
         /\ defers' = IF failed' # failed THEN <<>>
                      ELSE SubSeq(defers, 1, Len(defers) - 1)
    /\ UNCHANGED <<promVars, execVars, unitVars, cfgVars, cmdVars, execs, config, DestDev, DestDir, pc, err, terr, killedAt, exit>>

\* One deferred call of Backup.Run, the last registered first. The value
\* a deferred call returns is discarded.
RunDefer ==
    /\ pc = "unwind"
    /\ defers # <<>>
    /\ LET d == defers[Len(defers)] IN
         /\ defers' = SubSeq(defers, 1, Len(defers) - 1)
         /\ CASE d = "sleep" ->
                   /\ calls' = Append(calls, "SLEEP")
                   /\ UNCHANGED <<res, failed, devs>>
              [] d = "umountDev" ->
                   /\ calls' = Append(calls, "UMOUNT")
                   /\ devs' = Append(devs, OnDev("UMOUNT"))
                   /\ \E ok \in BOOLEAN :
                        /\ res' = [res EXCEPT !.mounted = IF ok THEN FALSE ELSE @]
                        /\ failed' = IF ok THEN failed ELSE failed \cup {"UMOUNT"}
              [] d = "rmdir" ->
                   /\ calls' = Append(calls, "RMDIR")
                   /\ UNCHANGED devs
                   /\ res' = [res EXCEPT !.tmpdir = res.mounted]
                   /\ failed' = IF res.mounted THEN failed \cup {"RMDIR"} ELSE failed
              [] d = "closeLuks" ->
                   /\ calls' = Append(calls, "LUKS_CLOSE")
                   /\ devs' = Append(devs, OnDev("LUKS_CLOSE"))
                   /\ \E ok \in BOOLEAN :
                        /\ res' = [res EXCEPT !.luks = IF ok /\ ~res.mounted THEN FALSE ELSE @]
                        /\ failed' = IF ok /\ ~res.mounted THEN failed
                                     ELSE failed \cup {"LUKS_CLOSE"}
    /\ UNCHANGED <<promVars, execVars, unitVars, cfgVars, cmdVars, execs, config, DestDev, DestDir, pc, err, terr, killedAt, exit>>

\* Backup.Run has returned to main once no deferred call is left.
RunReturn ==
    /\ pc = "unwind"
    /\ defers = <<>>
    /\ pc' = "returned"
    /\ UNCHANGED <<promVars, execVars, unitVars, cfgVars, cmdVars, devs, execs, config, DestDev, DestDir, defers, calls, failed, err, terr, res, killedAt, exit>>

\* MainAfterRun with the textfile written whatever b.Run returned.
MainAfterRun_writesAlways ==
    /\ pc = "returned"
    /\ pc' = "exited"
    /\ exit' = IF err # "" THEN 1 ELSE 0
    /\ IF config.PromTextFile
       THEN /\ calls' = Append(calls, "PROMWRITE")
            /\ \E ok \in BOOLEAN :
                 failed' = IF ok THEN failed ELSE failed \cup {"PROMWRITE"}
       ELSE UNCHANGED <<calls, failed>>
    /\ UNCHANGED <<promVars, execVars, unitVars, cfgVars, cmdVars, devs, execs, config, DestDev, DestDir, defers, err, terr, res, killedAt>>

\* main after b.Run: log.Fatalln on failure (exit status 1); otherwise the
\* prometheus textfile is written when configured, a failure of that write
\* is only logged, and main returns (exit status 0).
MainAfterRun ==
    /\ pc = "returned"
    /\ pc' = "exited"
    /\ IF err # ""
       THEN /\ exit' = 1
            /\ UNCHANGED <<calls, failed>>
       ELSE /\ exit' = 0
            /\ IF config.PromTextFile
               THEN /\ calls' = Append(calls, "PROMWRITE")
                    /\ \E ok \in BOOLEAN :
                         failed' = IF ok THEN failed ELSE failed \cup {"PROMWRITE"}
               ELSE UNCHANGED <<calls, failed>>
    /\ UNCHANGED <<promVars, execVars, unitVars, cfgVars, cmdVars, devs, execs, config, DestDev, DestDir, defers, err, terr, res, killedAt>>

\* Exit status of a process terminated by SIGINT (2) or SIGTERM (15).
SignalExit(sig) == 128 + sig

\* Delivery of SIGINT or SIGTERM. The program installs no handler and
\* never ignores a signal, so the Go runtime's default applies at every
\* point: the process exits at once and no deferred call runs.
Signal ==
    /\ pc \notin {"exited", "quit", "killed"}
    /\ \E sig \in {2, 15} : exit' = SignalExit(sig)
    /\ killedAt' = pc
    /\ pc' = "killed"
    /\ UNCHANGED <<promVars, execVars, unitVars, cfgVars, cmdVars, devs, execs, config, DestDev, DestDir, defers, calls, failed, err, terr, res>>

(***************************************************************************)
(* Part 2: writeNodeTextFile.  Text is a sequence of one-character         *)
(* strings; a line of the textfile is kept as the record it was formatted  *)
(* from (or as foreign text) and turned into text whenever the code looks  *)
(* at its bytes.                                                           *)
(***************************************************************************)

\* Number of concurrent writers.
NProcs == 2
\* Longest backup name.
MaxNameLen == 2
\* Largest value of the clock.
MaxClock == 2

Procs == 1..NProcs

\* Characters a backup name is made of: two plain characters, the regular
\* expression wildcard, the quote (escaped by %q) and an opening parenthesis
\* (which no closing one can balance).
NameChars == {"a", ".", "\"", "("}

Names == UNION {[1..n -> NameChars] : n \in 1..MaxNameLen}

\* Foreign lines a textfile may hold: a comment and an empty line.
CommentLine == [kind |-> "other", text |-> <<"#", " ", "a">>]
BlankLine == [kind |-> "other", text |-> <<>>]
InitialFiles == {<<>>, <<CommentLine>>, <<BlankLine, CommentLine>>}

Rec(n, t) == [kind |-> "rec", name |-> n, ts |-> t]

RECURSIVE Escape(_)
\* The escaping of %q: a quote becomes backslash quote.
Escape(s) ==
    IF s = <<>> THEN <<>>
    ELSE (IF Head(s) = "\"" THEN <<"\\", "\"">> ELSE <<Head(s)>>) \o Escape(Tail(s))

\* fmt's %q verb.
Quote(s) == <<"\"">> \o Escape(s) \o <<"\"">>

LitBackup == <<"b", "a", "c", "k", "u", "p">>
LitNameEq == <<"n", "a", "m", "e", "=">>
LitJobStatus ==
    <<",", " ", "j", "o", "b", "=", "\"", "n", "e", "t", "b", "a", "c", "k", "u", "p", "\"",
      ",", " ", "s", "t", "a", "t", "u", "s", "=", "\"", "s", "u", "c", "c", "e", "s", "s", "\"",
      "}", " ">>

\* The line fmt.Sprintf writes for a name and a timestamp (without "\n").
RecordText(n, t) ==
    LitBackup \o <<"{">> \o LitNameEq \o Quote(n) \o LitJobStatus \o Decimal(t)

\* The bytes of a line of the textfile.
Text(line) == IF line.kind = "rec" THEN RecordText(line.name, line.ts) ELSE line.text

\* regexp.Compile of the expression built around the name: it fails when
\* the name leaves a parenthesis open.
CompileOK(name) == \A i \in 1..Len(name) : name[i] # "("

\* The literal lit stands in t at position p.
LitAt(t, p, lit) ==
    /\ p >= 1
    /\ p + Len(lit) - 1 <= Len(t)
    /\ \A i \in 1..Len(lit) : t[p + i - 1] = lit[i]

\* The name, read as a regular expression, matches t from position p and a
\* quote follows: "." matches any character, the others themselves.
NameAt(t, p, name) ==
    /\ p + Len(name) <= Len(t)
    /\ \A i \in 1..Len(name) : name[i] = "." \/ t[p + i - 1] = name[i]
    /\ t[p + Len(name)] = "\""

RECURSIVE SkipSpace(_, _)
\* First position from p on that holds no white space ([\s]*).
SkipSpace(t, p) ==
    IF p <= Len(t) /\ t[p] \in {" ", "\t"} THEN SkipSpace(t, p + 1) ELSE p

\* matchname.Match(line) for backup[\s]*{.*name="<name>".* (unanchored).
Match(t, name) ==
    \E b \in 1..Len(t) :
        /\ LitAt(t, b, LitBackup)
        /\ LET c == SkipSpace(t, b + Len(LitBackup)) IN
             /\ c <= Len(t)
             /\ t[c] = "{"
             /\ \E n \in (c + 1)..Len(t) :
                  /\ LitAt(t, n, LitNameEq \o <<"\"">>)
                  /\ NameAt(t, n + Len(LitNameEq) + 1, name)

\* Lines of data the rebuild loop keeps: not empty, not matching the name.
Keep(line, name) == Text(line) # <<>> /\ ~Match(Text(line), name)

\* The output of the rebuild loop followed by the new record.
Rebuild(data, name, t) ==
    SelectSeq(data, LAMBDA l : Keep(l, name)) \o <<Rec(name, t)>>

PromInit ==
    /\ file \in InitialFiles
    /\ lock = 0
    /\ now = 0
    /\ wpc = [p \in Procs |-> "start"]
    /\ wname \in [Procs -> Names]
    /\ wdata = [p \in Procs |-> <<>>]
    /\ wout = [p \in Procs |-> <<>>]
    /\ wtemp = [p \in Procs |-> "none"]
    /\ wres = [p \in Procs |-> ""]

\* A return with an error after the lock was taken: the deferred calls run.
WFail(p) ==
    /\ wpc' = [wpc EXCEPT ![p] = "unwind"]
    /\ wres' = [wres EXCEPT ![p] = "error"]

\* os.OpenFile of the lockfile.
WOpenLock(p) ==
    /\ wpc[p] = "start"
    /\ \E ok \in BOOLEAN :
         IF ok THEN wpc' = [wpc EXCEPT ![p] = "flock"] /\ wres' = wres
               ELSE wpc' = [wpc EXCEPT ![p] = "done"] /\ wres' = [wres EXCEPT ![p] = "error"]
    /\ UNCHANGED <<runVars, execVars, unitVars, cfgVars, cmdVars, file, lock, now, wname, wdata, wout, wtemp>>

\* WFlock that does not wait for the holder of the lock.
WFlock_noWait(p) ==
    /\ wpc[p] = "flock"
    /\ lock' = p
    /\ wpc' = [wpc EXCEPT ![p] = "read"]
    /\ UNCHANGED <<runVars, execVars, unitVars, cfgVars, cmdVars, file, now, wname, wdata, wout, wtemp, wres>>

\* syscall.Flock(LOCK_EX): blocks while another descriptor holds the lock.
WFlock(p) ==
    /\ wpc[p] = "flock"
    /\ lock = 0
    /\ lock' = p
    /\ wpc' = [wpc EXCEPT ![p] = "read"]
    /\ UNCHANGED <<runVars, execVars, unitVars, cfgVars, cmdVars, file, now, wname, wdata, wout, wtemp, wres>>

\* os.OpenFile and io.ReadAll of the textfile.
WRead(p) ==
    /\ wpc[p] = "read"
    /\ \E ok \in BOOLEAN :
         IF ok
         THEN /\ wdata' = [wdata EXCEPT ![p] = file]
              /\ wpc' = [wpc EXCEPT ![p] = "build"]
              /\ wres' = wres
         ELSE /\ WFail(p)
              /\ wdata' = wdata
    /\ UNCHANGED <<runVars, execVars, unitVars, cfgVars, cmdVars, file, lock, now, wname, wout, wtemp>>

\* regexp.Compile, the rebuild loop and the new record with the current time.
WBuild(p) ==
    /\ wpc[p] = "build"
    /\ IF CompileOK(wname[p])
       THEN \E t \in now..(IF now < MaxClock THEN now + 1 ELSE now) :
              /\ now' = t
              /\ wout' = [wout EXCEPT ![p] = Rebuild(wdata[p], wname[p], t)]
              /\ wpc' = [wpc EXCEPT ![p] = "temp"]
              /\ wres' = wres
       ELSE /\ WFail(p)
            /\ UNCHANGED <<now, wout>>
    /\ UNCHANGED <<runVars, execVars, unitVars, cfgVars, cmdVars, file, lock, wname, wdata, wtemp>>

\* os.CreateTemp, os.Chmod and temp.Write.
WWriteTemp(p) ==
    /\ wpc[p] = "temp"
    /\ \E step \in {"create", "write", "ok"} :
         CASE step = "create" -> WFail(p) /\ wtemp' = wtemp
           [] step = "write" -> WFail(p) /\ wtemp' = [wtemp EXCEPT ![p] = <<>>]
           [] step = "ok" -> /\ wtemp' = [wtemp EXCEPT ![p] = wout[p]]
                             /\ wpc' = [wpc EXCEPT ![p] = "rename"]
                             /\ wres' = wres
    /\ UNCHANGED <<runVars, execVars, unitVars, cfgVars, cmdVars, file, lock, now, wname, wdata, wout>>

\* os.Rename of the temporary file over the textfile.
WRename(p) ==
    /\ wpc[p] = "rename"
    /\ \E ok \in BOOLEAN :
         IF ok
         THEN /\ file' = wtemp[p]
              /\ wtemp' = [wtemp EXCEPT ![p] = "none"]
              /\ wpc' = [wpc EXCEPT ![p] = "unwind"]
              /\ wres' = [wres EXCEPT ![p] = "ok"]
         ELSE /\ WFail(p)
              /\ UNCHANGED <<file, wtemp>>
    /\ UNCHANGED <<runVars, execVars, unitVars, cfgVars, cmdVars, lock, now, wname, wdata, wout>>

\* WReturn without the deferred os.Remove of the temporary file.
WReturn_keepsTemp(p) ==
    /\ wpc[p] = "unwind"
    /\ wtemp' = wtemp
    /\ lock' = IF lock = p THEN 0 ELSE lock
    /\ wpc' = [wpc EXCEPT ![p] = "done"]
    /\ UNCHANGED <<runVars, execVars, unitVars, cfgVars, cmdVars, file, now, wname, wdata, wout, wres>>

\* The deferred calls: the temporary file is removed, the lock released.
WReturn(p) ==
    /\ wpc[p] = "unwind"
    /\ wtemp' = [wtemp EXCEPT ![p] = "none"]
    /\ lock' = IF lock = p THEN 0 ELSE lock
    /\ wpc' = [wpc EXCEPT ![p] = "done"]
    /\ UNCHANGED <<runVars, execVars, unitVars, cfgVars, cmdVars, file, now, wname, wdata, wout, wres>>

(***************************************************************************)
(* Part 3: execute.Exec, its two stream goroutines and ExitCode.  The      *)
(* child's output is a sequence of one-character strings; "L" stands for a *)
(* run of MaxScanTokenSize bytes that holds no newline.                    *)
(***************************************************************************)

\* Longest output of the child on stdout and on stderr.
MaxOutLen == 3
MaxErrLen == 1
\* Number of elements a pipe holds before a write to it blocks.
PipeCap == 1

\* bufio.MaxScanTokenSize, the size the Scanner's buffer grows to.
MaxScanTokenSize == 65536

Streams == {"stdout", "stderr"}

OutChars == {"x", "\n", "L"}

Outputs(n) == UNION {[1..k -> OutChars] : k \in 0..n}

\* Number of bytes an element of the output stands for.
Weight(c) == IF c = "L" THEN MaxScanTokenSize ELSE 1

RECURSIVE BufLen(_)
BufLen(b) == IF b = <<>> THEN 0 ELSE Weight(Head(b)) + BufLen(Tail(b))

\* Wait status words (syscall.WaitStatus): exit code in bits 8-15, the
\* terminating signal in bits 0-6.
ExitWord(code) == code * 256
SignalWord(sig) == sig
WaitWords == {ExitWord(0), ExitWord(1), ExitWord(23), ExitWord(24), ExitWord(255),
              SignalWord(9), SignalWord(24)}

\* syscall.WaitStatus.Exited, Signaled and ExitStatus.
Exited(w) == w % 128 = 0
Signaled(w) == w % 128 # 0 /\ w % 128 # 127
ExitStatus(w) == IF ~Exited(w) THEN -1 ELSE (w \div 256) % 256

\* Error values: nil, what cmd.Wait makes of a wait status (*exec.ExitError
\* unless the child exited with 0), and errors that are no ExitError.
Nil == [kind |-> "nil", status |-> 0]
WaitError(w) == [kind |-> "ExitError", status |-> w]
StartError == [kind |-> "start", status |-> 0]
CallbackError(s) == [kind |-> s, status |-> 0]
WaitResult(w) == IF Exited(w) /\ ExitStatus(w) = 0 THEN Nil ELSE WaitError(w)

\* execute.ExitCode.
ExitCode(e) ==
    IF e = Nil THEN 0
    ELSE IF e.kind = "ExitError" THEN ExitStatus(e.status)
    ELSE 255

ExecInit ==
    /\ xsrc \in [Streams -> Outputs(MaxOutLen)]
    /\ Len(xsrc["stderr"]) <= MaxErrLen
    /\ xwritten = [s \in Streams |-> <<>>]
    /\ xpipe = [s \in Streams |-> <<>>]
    /\ xchild = "none"
    /\ xstatus = 0
    /\ xbuf = [s \in Streams |-> <<>>]
    /\ xrpc = [s \in Streams |-> "idle"]
    /\ xchan = [s \in Streams |-> "empty"]
    /\ xlines = [s \in Streams |-> <<>>]
    /\ xfailAt = [s \in Streams |-> 0]
    /\ xpc = "start"
    /\ xret = Nil
    /\ xcode = 0
    /\ xrun = Nil

\* Exec up to the two go statements: StdoutPipe, StderrPipe and Start; a
\* failure of any of them is returned at once.
ExecStart ==
    /\ xpc = "start"
    /\ \E ok \in BOOLEAN :
         IF ok
         THEN /\ xchild' = "running"
              /\ xrpc' = [s \in Streams |-> "scan"]
              /\ xpc' = "recv_out"
              /\ xret' = xret
         ELSE /\ xpc' = "returned"
              /\ xret' = StartError
              /\ UNCHANGED <<xchild, xrpc>>
    /\ UNCHANGED <<runVars, promVars, unitVars, cfgVars, cmdVars, xsrc, xwritten, xpipe, xstatus, xbuf, xchan,
                   xlines, xfailAt, xcode, xrun>>

\* The child writes to one of its streams; the write blocks on a full pipe.
ChildWrite(s) ==
    /\ xchild = "running"
    /\ xsrc[s] # <<>>
    /\ Len(xpipe[s]) < PipeCap
    /\ xsrc' = [xsrc EXCEPT ![s] = Tail(@)]
    /\ xwritten' = [xwritten EXCEPT ![s] = Append(@, Head(xsrc[s]))]
    /\ xpipe' = [xpipe EXCEPT ![s] = Append(@, Head(xsrc[s]))]
    /\ UNCHANGED <<runVars, promVars, unitVars, cfgVars, cmdVars, xchild, xstatus, xbuf, xrpc, xchan, xlines,
                   xfailAt, xpc, xret, xcode, xrun>>

\* The child exits or is killed by a signal at any point of its output;
\* what it has written stays in the pipes.
ChildExit ==
    /\ xchild = "running"
    /\ xchild' = "exited"
    /\ \E w \in WaitWords : xstatus' = w
    /\ UNCHANGED <<runVars, promVars, unitVars, cfgVars, cmdVars, xsrc, xwritten, xpipe, xbuf, xrpc, xchan,
                   xlines, xfailAt, xpc, xret, xcode, xrun>>

\* outFunc(s.Text()) inside stream: the line is handed to the callback; when
\* the callback fails the error goes to the channel and stream returns.
Callback(s, line) ==
    /\ xlines' = [xlines EXCEPT ![s] = Append(@, line)]
    /\ \E ok \in BOOLEAN :
         IF ok
         THEN UNCHANGED <<xfailAt, xchan, xrpc>>
         ELSE /\ xfailAt' = [xfailAt EXCEPT ![s] = Len(xlines[s]) + 1]
              /\ xchan' = [xchan EXCEPT ![s] = "err"]
              /\ xrpc' = [xrpc EXCEPT ![s] = "done"]

\* s.Scan() returned false (end of stream or a Scanner error, which stream
\* does not look at): c <- nil.
StreamEnd(s) ==
    /\ xchan' = [xchan EXCEPT ![s] = "nil"]
    /\ xrpc' = [xrpc EXCEPT ![s] = "done"]

\* stream, one element read from the pipe: a newline completes the line in
\* the buffer; anything else is added to the buffer, and a buffer that has
\* reached MaxScanTokenSize without a newline ends the scan (ErrTooLong).
StreamRead(s) ==
    /\ xrpc[s] = "scan"
    /\ xpipe[s] # <<>>
    /\ xpipe' = [xpipe EXCEPT ![s] = Tail(@)]
    /\ LET c == Head(xpipe[s]) IN
         IF c = "\n"
         THEN /\ xbuf' = [xbuf EXCEPT ![s] = <<>>]
              /\ Callback(s, xbuf[s])
         ELSE /\ xbuf' = [xbuf EXCEPT ![s] = Append(@, c)]
              /\ IF BufLen(xbuf[s]) + Weight(c) >= MaxScanTokenSize
                 THEN StreamEnd(s) /\ UNCHANGED <<xlines, xfailAt, xcode, xrun>>
                 ELSE UNCHANGED <<xlines, xfailAt, xchan, xrpc>>
    /\ UNCHANGED <<runVars, promVars, unitVars, cfgVars, cmdVars, xsrc, xwritten, xchild, xstatus, xpc, xret,
                   xcode, xrun>>

\* stream at the end of the pipe (the child is gone and the pipe is empty):
\* a non-empty rest of the buffer is the last line, then c <- nil.
StreamEOF(s) ==
    /\ xrpc[s] = "scan"
    /\ xpipe[s] = <<>>
    /\ xchild = "exited"
    /\ xbuf' = [xbuf EXCEPT ![s] = <<>>]
    /\ IF xbuf[s] # <<>>
       THEN /\ xlines' = [xlines EXCEPT ![s] = Append(@, xbuf[s])]
            /\ \E ok \in BOOLEAN :
                 /\ xfailAt' = [xfailAt EXCEPT ![s] = IF ok THEN @ ELSE Len(xlines[s]) + 1]
                 /\ xchan' = [xchan EXCEPT ![s] = IF ok THEN "nil" ELSE "err"]
            /\ xrpc' = [xrpc EXCEPT ![s] = "done"]
       ELSE StreamEnd(s) /\ UNCHANGED <<xlines, xfailAt, xcode, xrun>>
    /\ UNCHANGED <<runVars, promVars, unitVars, cfgVars, cmdVars, xsrc, xwritten, xpipe, xchild, xstatus, xpc, xret,
                   xcode, xrun>>

\* ExecRecvOut going on to run.Wait without the receive from errchan.
ExecRecvOut_skipsStderr ==
    /\ xpc = "recv_out"
    /\ xchan["stdout"] # "empty"
    /\ xchan' = [xchan EXCEPT !["stdout"] = "empty"]
    /\ IF xchan["stdout"] = "err"
       THEN xpc' = "returned" /\ xret' = CallbackError("stdout")
       ELSE xpc' = "wait" /\ xret' = xret
    /\ UNCHANGED <<runVars, promVars, unitVars, cfgVars, cmdVars, xsrc, xwritten, xpipe, xchild, xstatus, xbuf,
                   xrpc, xlines, xfailAt, xcode, xrun>>

\* Exec: err = <-outchan.
ExecRecvOut ==
    /\ xpc = "recv_out"
    /\ xchan["stdout"] # "empty"
    /\ xchan' = [xchan EXCEPT !["stdout"] = "empty"]
    /\ IF xchan["stdout"] = "err"
       THEN xpc' = "returned" /\ xret' = CallbackError("stdout")
       ELSE xpc' = "recv_err" /\ xret' = xret
    /\ UNCHANGED <<runVars, promVars, unitVars, cfgVars, cmdVars, xsrc, xwritten, xpipe, xchild, xstatus, xbuf,
                   xrpc, xlines, xfailAt, xcode, xrun>>

\* Exec: err = <-errchan.
ExecRecvErr ==
    /\ xpc = "recv_err"
    /\ xchan["stderr"] # "empty"
    /\ xchan' = [xchan EXCEPT !["stderr"] = "empty"]
    /\ IF xchan["stderr"] = "err"
       THEN xpc' = "returned" /\ xret' = CallbackError("stderr")
       ELSE xpc' = "wait" /\ xret' = xret
    /\ UNCHANGED <<runVars, promVars, unitVars, cfgVars, cmdVars, xsrc, xwritten, xpipe, xchild, xstatus, xbuf,
                   xrpc, xlines, xfailAt, xcode, xrun>>

\* Exec: return run.Wait(), which blocks until the child is gone.
ExecWait ==
    /\ xpc = "wait"
    /\ xchild = "exited"
    /\ xpc' = "returned"
    /\ xret' = WaitResult(xstatus)
    /\ UNCHANGED <<runVars, promVars, unitVars, cfgVars, cmdVars, xsrc, xwritten, xpipe, xchild, xstatus, xbuf,
                   xrpc, xchan, xlines, xfailAt, xcode, xrun>>

\* RsyncResult returning the executor's error as it is.
RsyncResult_no24 ==
    /\ xpc = "returned"
    /\ xpc' = "mapped"
    /\ xcode' = ExitCode(xret)
    /\ xrun' = xret
    /\ UNCHANGED <<runVars, promVars, unitVars, cfgVars, cmdVars, xsrc, xwritten, xpipe, xchild, xstatus, xbuf,
                   xrpc, xchan, xlines, xfailAt, xret>>

\* RsyncTransport.Run after execute.RunCommand (which returns the error of
\* Exec): an error whose ExitCode is 24 becomes nil.
RsyncResult ==
    /\ xpc = "returned"
    /\ xpc' = "mapped"
    /\ xcode' = ExitCode(xret)
    /\ xrun' = IF xret # Nil /\ ExitCode(xret) = 24 THEN Nil ELSE xret
    /\ UNCHANGED <<runVars, promVars, unitVars, cfgVars, cmdVars, xsrc, xwritten, xpipe, xchild, xstatus, xbuf,
                   xrpc, xchan, xlines, xfailAt, xret>>

\* No call of Exec is in progress.
ExecIdle ==
    /\ xsrc = [s \in Streams |-> <<>>]
    /\ xwritten = [s \in Streams |-> <<>>]
    /\ xpipe = [s \in Streams |-> <<>>]
    /\ xchild = "none"
    /\ xstatus = 0
    /\ xbuf = [s \in Streams |-> <<>>]
    /\ xrpc = [s \in Streams |-> "idle"]
    /\ xchan = [s \in Streams |-> "empty"]
    /\ xlines = [s \in Streams |-> <<>>]
    /\ xfailAt = [s \in Streams |-> 0]
    /\ xpc = "mapped"
    /\ xret = Nil
    /\ xcode = 0
    /\ xrun = Nil

(***************************************************************************)
(* Part 4: one transport, constructed and run on its own, with its command *)
(* line piece by piece.  A string is the sequence of its pieces; a token   *)
(* of a command line is a string.                                          *)
(***************************************************************************)

\* Longest custom_bin, in characters.
MaxBinLen == 3
\* Longest include and exclude list.
MaxPatterns == 2

UnitTransports == {"rsync", "rclone", "rdiff-backup", "restic", "custom"}

BinChars == {"a", " "}
CustomBins == UNION {[1..n -> BinChars] : n \in 0..MaxBinLen}
SourceDirs == {<<>>, <<"/">>, <<"/", "s">>}
DestDirs == {<<>>, <<"/", "d">>}
IncludeLists == {SubSeq(<<"q", "p", "r", "o">>, 1, n) : n \in 0..MaxPatterns}
ExcludeLists == {SubSeq(<<"z", "y", "x", "w">>, 1, n) : n \in 0..MaxPatterns}
ExtraArgLists == {<<>>, << <<"-x">>, <<"-y">> >>}

\* The random part ioutil.TempFile gives the name of a temporary file.
TempSuffixes == {"001", "002"}

\* The configurations a transport is constructed with.  The custom
\* transport reads custom_cmd only, the other transports never read it.
UnitConfigs ==
    {c \in [Transport : UnitTransports,
            SourceDir : SourceDirs,
            DestDir : DestDirs,
            SourceHost : {<<>>, <<"h">>},
            DestHost : {<<>>, <<"g">>},
            Include : IncludeLists,
            Exclude : ExcludeLists,
            ExtraArgs : ExtraArgLists,
            CustomBin : CustomBins,
            CustomCmd : {<<>>, <<"cmd">>},
            dryRun : BOOLEAN] :
        IF c.Transport = "custom"
        THEN /\ c.SourceDir = <<"/", "s">> /\ c.DestDir = <<"/", "d">>
             /\ c.SourceHost = <<>> /\ c.DestHost = <<>>
             /\ c.Include = <<>> /\ c.Exclude = <<>>
             /\ c.ExtraArgs = <<>> /\ c.CustomBin = <<>>
        ELSE c.CustomCmd = <<>>}

\* strings.Split(s, sep) for a one-character separator: the pieces between
\* the separators, the empty ones included.
RECURSIVE SplitFrom(_, _, _)
SplitFrom(s, sep, cur) ==
    IF s = <<>> THEN <<cur>>
    ELSE IF Head(s) = sep THEN <<cur>> \o SplitFrom(Tail(s), sep, <<>>)
    ELSE SplitFrom(Tail(s), sep, Append(cur, Head(s)))

Split(s, sep) == SplitFrom(s, sep, <<>>)

\* strings.Join(a, sep).
RECURSIVE Join(_, _)
Join(a, sep) ==
    IF a = <<>> THEN <<>>
    ELSE IF Len(a) = 1 THEN a[1]
    ELSE a[1] \o <<sep>> \o Join(Tail(a), sep)

\* strings.HasSuffix(s, suffix) for a one-character suffix.
HasSuffix(s, suffix) == s # <<>> /\ s[Len(s)] = suffix

\* Transport.buildSource and Transport.buildDest.
buildSource(c, sep) ==
    IF c.SourceHost # <<>> THEN c.SourceHost \o <<sep>> \o c.SourceDir ELSE c.SourceDir

buildDest(c, sep) ==
    IF c.DestHost # <<>> THEN c.DestHost \o <<sep>> \o c.DestDir ELSE c.DestDir

\* checkConfig of restic without the case that refuses an include list.
checkConfig_includeAllowed(c) ==
    CASE c.Transport \in {"rsync", "rdiff-backup"} ->
            IF c.SourceDir = <<>> THEN "SourceDir is empty"
            ELSE IF c.DestDir = <<>> THEN "DestDir is empty"
            ELSE IF c.SourceHost # <<>> /\ c.DestHost # <<>>
                 THEN "Cannot have source & dest host set"
            ELSE ""
      [] c.Transport = "restic" ->
            IF c.SourceDir = <<>> THEN "SourceDir is empty"
            ELSE IF c.DestDir = <<>> THEN "DestDir is empty"
            ELSE IF c.SourceHost # <<>> THEN "Cannot have source host set"
            ELSE ""
      [] c.Transport = "rclone" ->
            IF c.SourceDir = <<>> THEN "SourceDir is empty"
            ELSE IF c.DestDir = <<>> THEN "DestDir is empty"
            ELSE ""
      [] OTHER ->
            IF c.CustomCmd = <<>> THEN "CustomCmd is empty" ELSE ""

\* checkConfig of each transport: the error it returns, "" for nil.
checkConfig(c) ==
    CASE c.Transport \in {"rsync", "rdiff-backup"} ->
            IF c.SourceDir = <<>> THEN "SourceDir is empty"
            ELSE IF c.DestDir = <<>> THEN "DestDir is empty"
            ELSE IF c.SourceHost # <<>> /\ c.DestHost # <<>>
                 THEN "Cannot have source & dest host set"
            ELSE ""
      [] c.Transport = "restic" ->
            IF c.SourceDir = <<>> THEN "SourceDir is empty"
            ELSE IF c.DestDir = <<>> THEN "DestDir is empty"
            ELSE IF c.Include # <<>> THEN "Include is not supported by restic transport"
            ELSE IF c.SourceHost # <<>> THEN "Cannot have source host set"
            ELSE ""
      [] c.Transport = "rclone" ->
            IF c.SourceDir = <<>> THEN "SourceDir is empty"
            ELSE IF c.DestDir = <<>> THEN "DestDir is empty"
            ELSE ""
      [] OTHER ->
            IF c.CustomCmd = <<>> THEN "CustomCmd is empty" ELSE ""

\* The leading tokens of a command line: the program name, or custom_bin
\* split at every blank.
ExecutableTokens(c, name) ==
    IF c.CustomBin # <<>> THEN Split(c.CustomBin, " ") ELSE << <<name>> >>

\* filterNeeded that holds for every configuration.
filterNeeded_always(c) == TRUE

\* The condition under which rsync and rclone create a filter file.
filterNeeded(c) == c.Include # <<>> \/ c.Exclude # <<>>

\* The name ioutil.TempFile("/tmp", prefix) returns.
TempFile(prefix, k) == <<"/tmp/", prefix, k>>

\* The combined filter file of rsync and rclone: its lines.
createFilterFile(include, exclude) ==
    [i \in 1..Len(include) |-> <<"+ ", include[i]>>]
    \o [i \in 1..Len(exclude) |-> <<"- ", exclude[i]>>]

\* RsyncTransport.Run, the command line; k names the filter file.
RsyncCmd(c, k) ==
    ExecutableTokens(c, "rsync")
    \o << <<"-avAXH">>, <<"--delete">>, <<"--numeric-ids">> >>
    \o (IF filterNeeded(c)
        THEN << <<"--filter=merge ">> \o TempFile("filter", k) >> ELSE <<>>)
    \o (IF c.Exclude # <<>> THEN << <<"--delete-excluded">> >> ELSE <<>>)
    \o c.ExtraArgs
    \o << IF HasSuffix(buildSource(c, ":"), "/")
          THEN buildSource(c, ":") ELSE buildSource(c, ":") \o <<"/">>,
          buildDest(c, ":") >>

\* RcloneCmd with --filter-from given in every command line.
RcloneCmd_filterFromAlways(c, k) ==
    ExecutableTokens(c, "rclone")
    \o << <<"sync">>, <<"-v">> >>
    \o << <<"--filter-from=">> \o TempFile("filter", k) >>
    \o c.ExtraArgs
    \o << buildSource(c, ":"), buildDest(c, ":") >>

\* RcloneTransport.Run, the command line.
RcloneCmd(c, k) ==
    ExecutableTokens(c, "rclone")
    \o << <<"sync">>, <<"-v">> >>
    \o (IF filterNeeded(c)
        THEN << <<"--filter-from=">> \o TempFile("filter", k) >> ELSE <<>>)
    \o c.ExtraArgs
    \o << buildSource(c, ":"), buildDest(c, ":") >>

\* ResticTransport.Run, the backup command line; the excludeFile it
\* formats is the empty one of the var block.
ResticCmd(c) ==
    ExecutableTokens(c, "restic")
    \o << <<"-v">>, <<"-v">> >>
    \o (IF c.Exclude # <<>> THEN << <<"--exclude-file=">> >> ELSE <<>>)
    \o c.ExtraArgs
    \o << <<"--repo">>, buildDest(c, ":"), <<"backup">>, c.SourceDir >>

\* RdiffBackupTransport.Run, the backup command line; extra_args is one
\* string there, and custom_bin is not read.
RdiffCmd(c, k, k2) ==
    << <<"rdiff-backup">>, <<"--verbosity=5">>, <<"--terminal-verbosity=5">>,
       <<"--preserve-numerical-ids">>, <<"--exclude-sockets">>,
       <<"--exclude-other-filesystems">>, <<"--force">> >>
    \o (IF c.Exclude # <<>>
        THEN << <<"--exclude-globbing-filelist=">> \o TempFile("exclude", k) >> ELSE <<>>)
    \o (IF c.Include # <<>>
        THEN << <<"--include-globbing-filelist=">> \o TempFile("include", k2) >> ELSE <<>>)
    \o (IF c.ExtraArgs # <<>> THEN << Join(c.ExtraArgs, " ") >> ELSE <<>>)
    \o << buildSource(c, "::"), buildDest(c, "::") >>

\* execute.WithShell(config.CustomCmd).
WithShell(cmd) == << <<"$SHELL">>, <<"-c">>, <<"--">>, cmd >>

\* The command line Run builds.
Cmd(c, k, k2) ==
    CASE c.Transport = "rsync" -> RsyncCmd(c, k)
      [] c.Transport = "rclone" -> RcloneCmd(c, k)
      [] c.Transport = "restic" -> ResticCmd(c)
      [] c.Transport = "rdiff-backup" -> RdiffCmd(c, k, k2)
      [] OTHER -> WithShell(c.CustomCmd)

\* The temporary files Run creates, in order.
TempFiles(c, k, k2) ==
    CASE c.Transport \in {"rsync", "rclone"} ->
            IF filterNeeded(c) THEN <<TempFile("filter", k)>> ELSE <<>>
      [] c.Transport = "restic" ->
            IF c.Exclude # <<>> THEN <<TempFile("exclude", k)>> ELSE <<>>
      [] c.Transport = "rdiff-backup" ->
            (IF c.Exclude # <<>> THEN <<TempFile("exclude", k)>> ELSE <<>>)
            \o (IF c.Include # <<>> THEN <<TempFile("include", k2)>> ELSE <<>>)
      [] OTHER -> <<>>

\* The command lines Run writes to the log, without their timestamps.
\* rdiff-backup returns from runCmd before it logs when dryRun is set.
Logged(c, cmd) ==
    CASE c.Transport \in {"rsync", "rclone", "custom"} ->
            << <<"Command: ">> \o Join(cmd, " ") >>
      [] c.Transport = "restic" ->
            << <<"Command(1/1): ">> \o Join(cmd, " ") >>
      [] OTHER ->
            IF c.dryRun THEN <<>> ELSE << <<"*** Command: ">> \o Join(cmd, " ") >>

UnitInit ==
    /\ ucfg \in UnitConfigs
    /\ upc = "new"
    /\ uerr = ""
    /\ uexecs = <<>>
    /\ ulogs = <<>>
    /\ ufiles = <<>>
    /\ ufilter = <<>>

\* The constructor of the transport: NewRsyncTransport and its like.
TransportNew ==
    /\ upc = "new"
    /\ uerr' = checkConfig(ucfg)
    /\ upc' = IF checkConfig(ucfg) = "" THEN "run" ELSE "failed"
    /\ UNCHANGED <<runVars, promVars, execVars, cfgVars, cmdVars, ucfg, uexecs, ulogs, ufiles, ufilter>>

\* Run of the transport with an executor that succeeds.  In a dry-run the
\* program is started a second time with the same configuration.
TransportRun ==
    /\ upc \in {"run", "rerun"}
    /\ \E k \in TempSuffixes, k2 \in TempSuffixes :
         /\ ufiles' = ufiles \o TempFiles(ucfg, k, k2)
         /\ ufilter' = IF ucfg.Transport \in {"rsync", "rclone"} /\ filterNeeded(ucfg)
                       THEN Append(ufilter, createFilterFile(ucfg.Include, ucfg.Exclude))
                       ELSE ufilter
         /\ ulogs' = Append(ulogs, Logged(ucfg, Cmd(ucfg, k, k2)))
         /\ uexecs' = IF ucfg.dryRun THEN uexecs ELSE Append(uexecs, Cmd(ucfg, k, k2))
    /\ upc' = IF upc = "run" /\ ucfg.dryRun THEN "rerun" ELSE "done"
    /\ UNCHANGED <<runVars, promVars, execVars, cfgVars, cmdVars, ucfg, uerr>>

\* No transport is constructed on its own.
UnitIdle ==
    /\ ucfg = [Transport |-> "custom", SourceDir |-> <<"/", "s">>,
               DestDir |-> <<"/", "d">>, SourceHost |-> <<>>, DestHost |-> <<>>,
               Include |-> <<>>, Exclude |-> <<>>, ExtraArgs |-> <<>>,
               CustomBin |-> <<>>, CustomCmd |-> <<>>, dryRun |-> FALSE]
    /\ upc = "failed"
    /\ uerr = ""
    /\ uexecs = <<>>
    /\ ulogs = <<>>
    /\ ufiles = <<>>
    /\ ufilter = <<>>

(***************************************************************************)
(* Part 5: main reading its configuration file.                            *)
(***************************************************************************)

\* A path of the configuration file: unset, relative or absolute.
PathValues == {"", "rel", "/abs"}

\* The configuration files: for a field that is only tested for being
\* set, TRUE stands for a non-empty string.
RawConfigs ==
    [decode : {"ok", "syntax", "unknown"},
     Name : BOOLEAN,
     SourceDir : PathValues,
     Transport : BOOLEAN,
     Logfile : BOOLEAN,
     LogDir : BOOLEAN,
     DestDir : PathValues,
     DestDev : PathValues,
     LuksDestDev : PathValues,
     LuksKeyFile : BOOLEAN,
     DestHost : BOOLEAN,
     FSCleanup : BOOLEAN,
     SourceHost : BOOLEAN,
     SourceIsMountPoint : BOOLEAN]

\* strings.HasPrefix(p, "/").
HasPrefix(p) == p = "/abs"

\* The counters ParseConfig keeps of the destinations that are set.
ndest(c) == IF c.DestDir # "" THEN 1 ELSE 0
ndev(c) == (IF c.DestDev # "" THEN 1 ELSE 0) + (IF c.LuksDestDev # "" THEN 1 ELSE 0)

\* ParseConfig without the case that refuses more than one destination.
ParseConfig_manyDestinations(c) ==
    IF c.decode = "syntax" THEN "Error loading config"
    ELSE IF c.decode = "unknown" THEN "unknown field(s) in config"
    ELSE IF ~c.Name THEN "name cannot be empty"
    ELSE IF c.SourceDir = "" THEN "source_dir cannot be empty"
    ELSE IF ~c.Transport THEN "transport cannot be empty"
    ELSE IF c.Logfile /\ (c.LogDir \/ (~c.Logfile /\ ~c.LogDir))
         THEN "either log_dir or log_file can be set"
    ELSE IF ndest(c) + ndev(c) = 0 THEN "no destination set"
    ELSE IF ndev(c) # 0 /\ c.DestHost THEN "cannot have dest_dev and dest_host set"
    ELSE IF ndev(c) = 0 /\ c.FSCleanup
         THEN "fs_cleanup can only be used when destination is a filesystem"
    ELSE IF c.SourceHost /\ c.SourceIsMountPoint
         THEN "Cannot validate if source is a mountpoint with remote backups"
    ELSE IF ~c.SourceHost /\ ~HasPrefix(c.SourceDir) THEN "source_dir must be an absolute path"
    ELSE IF ~c.DestHost /\ c.DestDir # "" /\ ~HasPrefix(c.DestDir)
         THEN "dest_dir must be an absolute path"
    ELSE IF c.DestDev # "" /\ ~HasPrefix(c.DestDev) THEN "dest_dev must be an absolute path"
    ELSE IF c.LuksDestDev # "" /\ ~HasPrefix(c.LuksDestDev)
         THEN "dest_luks_dev must be an absolute path"
    ELSE IF c.LuksDestDev # "" /\ ~c.LuksKeyFile THEN "dest_luks_dev requires luks_key_file"
    ELSE ""

\* ParseConfig: the error it returns, "" for nil.  log_dir gets its
\* default when neither log_file nor log_dir is set.
ParseConfig(c) ==
    IF c.decode = "syntax" THEN "Error loading config"
    ELSE IF c.decode = "unknown" THEN "unknown field(s) in config"
    ELSE IF ~c.Name THEN "name cannot be empty"
    ELSE IF c.SourceDir = "" THEN "source_dir cannot be empty"
    ELSE IF ~c.Transport THEN "transport cannot be empty"
    ELSE IF c.Logfile /\ (c.LogDir \/ (~c.Logfile /\ ~c.LogDir))
         THEN "either log_dir or log_file can be set"
    ELSE IF ndest(c) + ndev(c) = 0 THEN "no destination set"
    ELSE IF ndest(c) + ndev(c) # 1 THEN "only one destination may be set"
    ELSE IF ndev(c) # 0 /\ c.DestHost THEN "cannot have dest_dev and dest_host set"
    ELSE IF ndev(c) = 0 /\ c.FSCleanup
         THEN "fs_cleanup can only be used when destination is a filesystem"
    ELSE IF c.SourceHost /\ c.SourceIsMountPoint
         THEN "Cannot validate if source is a mountpoint with remote backups"
    ELSE IF ~c.SourceHost /\ ~HasPrefix(c.SourceDir) THEN "source_dir must be an absolute path"
    ELSE IF ~c.DestHost /\ c.DestDir # "" /\ ~HasPrefix(c.DestDir)
         THEN "dest_dir must be an absolute path"
    ELSE IF c.DestDev # "" /\ ~HasPrefix(c.DestDev) THEN "dest_dev must be an absolute path"
    ELSE IF c.LuksDestDev # "" /\ ~HasPrefix(c.LuksDestDev)
         THEN "dest_luks_dev must be an absolute path"
    ELSE IF c.LuksDestDev # "" /\ ~c.LuksKeyFile THEN "dest_luks_dev requires luks_key_file"
    ELSE ""

CfgInit ==
    /\ raw \in RawConfigs
    /\ cpc = "parse"
    /\ cerr = ""

\* main, the call of config.ParseConfig.
MainParseConfig ==
    /\ cpc = "parse"
    /\ cerr' = ParseConfig(raw)
    /\ cpc' = "parsed"
    /\ UNCHANGED <<runVars, promVars, execVars, unitVars, cmdVars, raw>>

\* main, after ParseConfig: log.Fatalf on an error, NewBackup and
\* Backup.Run otherwise.
MainAfterParse ==
    /\ cpc = "parsed"
    /\ cpc' = IF cerr # "" THEN "fatal" ELSE "core"
    /\ UNCHANGED <<runVars, promVars, execVars, unitVars, cmdVars, raw, cerr>>

\* No configuration file is read.
CfgIdle ==
    /\ raw = [decode |-> "ok", Name |-> TRUE, SourceDir |-> "/abs", Transport |-> TRUE,
              Logfile |-> FALSE, LogDir |-> FALSE, DestDir |-> "/abs", DestDev |-> "",
              LuksDestDev |-> "", LuksKeyFile |-> FALSE, DestHost |-> FALSE,
              FSCleanup |-> FALSE, SourceHost |-> FALSE, SourceIsMountPoint |-> FALSE]
    /\ cpc = "core"
    /\ cerr = ""

(***************************************************************************)
(* Part 6: execute.RunCommand and the executor it is given.  A line and an *)
(* entry of a spam list are sequences of one-character strings.            *)
(***************************************************************************)

\* Largest number of lines the executor hands to one callback.
MaxLines == 2

\* The lines of the child's output.
LineSet == {<<"a">>, <<"a", "b">>, <<"b", "a">>}

\* The spam lists: none (nil), one entry, two entries, and the empty string
\* as the entry.
SpamLists ==
    {<<>>, << <<"a">> >>, << <<"b", "b">>, <<"b", "a">> >>, << <<>> >>}

\* What an executor returns: nil, the wait error of a child that exited
\* with 1, and an error of Start.
ExecResults == {Nil, WaitError(ExitWord(1)), StartError}

RECURSIVE ContainsFrom(_, _, _)
\* strings.Contains looking for substr from position i of s on.
ContainsFrom(s, substr, i) ==
    IF i + Len(substr) - 1 > Len(s) THEN FALSE
    ELSE IF SubSeq(s, i, i + Len(substr) - 1) = substr THEN TRUE
    ELSE ContainsFrom(s, substr, i + 1)

\* strings.Contains.
Contains(s, substr) == ContainsFrom(s, substr, 1)

RECURSIVE matchSlice(_, _)
\* matchSlice: the loop over the entries of the slice.
matchSlice(slice, s) ==
    IF slice = <<>> THEN FALSE
    ELSE IF Contains(s, Head(slice)) THEN TRUE
    ELSE matchSlice(Tail(slice), s)

\* outFilterFunc: TRUE when it logs the line.  A nil slice is the empty one.
outFilterFunc(buf) == rfilter["stdout"] = <<>> \/ ~matchSlice(rfilter["stdout"], buf)

\* errFilterFunc testing the line against outFilter.
errFilterFunc_usesOutFilter(buf) ==
    rfilter["stdout"] = <<>> \/ ~matchSlice(rfilter["stdout"], buf)

\* errFilterFunc: TRUE when it logs the line.
errFilterFunc(buf) == rfilter["stderr"] = <<>> \/ ~matchSlice(rfilter["stderr"], buf)

\* The callbacks as e.SetStdout and e.SetStderr installed them.
FilterFunc(s, buf) == IF s = "stdout" THEN outFilterFunc(buf) ELSE errFilterFunc(buf)

CmdInit ==
    /\ rfilter \in [Streams -> SpamLists]
    /\ rlines \in [Streams -> UNION {[1..n -> LineSet] : n \in 0..MaxLines}]
    /\ rgiven = [s \in Streams |-> <<>>]
    /\ rlog = <<>>
    /\ rcb = Nil
    /\ rexec = Nil
    /\ rret = Nil
    /\ rpc = "start"

\* RunCommand up to e.Exec(cmd): the executor is chosen, the two filter
\* functions are installed on it.
RunCommandStart ==
    /\ rpc = "start"
    /\ rpc' = "exec"
    /\ UNCHANGED <<runVars, promVars, execVars, unitVars, cfgVars, rfilter, rlines, rgiven, rlog,
                   rcb, rexec, rret>>

\* The executor calls the callback of a stream with the next line: the
\* filter function logs the line or not, and returns nil either way.
ExecutorLine(s) ==
    /\ rpc = "exec"
    /\ rcb = Nil
    /\ rlines[s] # <<>>
    /\ LET buf == Head(rlines[s]) IN
         /\ rlog' = IF FilterFunc(s, buf)
                    THEN Append(rlog, [stream |-> s, line |-> buf])
                    ELSE rlog
         /\ rgiven' = [rgiven EXCEPT ![s] = Append(@, buf)]
    /\ rlines' = [rlines EXCEPT ![s] = Tail(@)]
    /\ rcb' = Nil
    /\ UNCHANGED <<runVars, promVars, execVars, unitVars, cfgVars, rfilter, rexec, rret, rpc>>

\* e.Exec returns: the error of a callback if one failed, as Exec does,
\* else any result, at any point of the output.
ExecutorReturn ==
    /\ rpc = "exec"
    /\ IF rcb # Nil THEN rexec' = rcb ELSE \E e \in ExecResults : rexec' = e
    /\ rpc' = "finish"
    /\ UNCHANGED <<runVars, promVars, execVars, unitVars, cfgVars, rfilter, rlines, rgiven, rlog,
                   rcb, rret>>

\* RunCommand after e.Exec: err is returned when it is not nil, else nil.
RunCommandReturn ==
    /\ rpc = "finish"
    /\ rret' = IF rexec # Nil THEN rexec ELSE Nil
    /\ rpc' = "returned"
    /\ UNCHANGED <<runVars, promVars, execVars, unitVars, cfgVars, rfilter, rlines, rgiven, rlog,
                   rcb, rexec>>

\* No call of RunCommand is in progress.
CmdIdle ==
    /\ rfilter = [s \in Streams |-> <<>>]
    /\ rlines = [s \in Streams |-> <<>>]
    /\ rgiven = [s \in Streams |-> <<>>]
    /\ rlog = <<>>
    /\ rcb = Nil
    /\ rexec = Nil
    /\ rret = Nil
    /\ rpc = "returned"

\* The writers take no part in a run of the orchestrator.
PromIdle ==
    /\ file = <<>>
    /\ lock = 0
    /\ now = 0
    /\ wpc = [p \in Procs |-> "done"]
    /\ wname = [p \in Procs |-> <<"a">>]
    /\ wdata = [p \in Procs |-> <<>>]
    /\ wout = [p \in Procs |-> <<>>]
    /\ wtemp = [p \in Procs |-> "none"]
    /\ wres = [p \in Procs |-> ""]

\* The orchestrator takes no part in a run of the writers.
RunIdle ==
    /\ config = [dryRun |-> FALSE, SourceIsMountPoint |-> FALSE, dest |-> "dir",
                 LuksKeyFile |-> FALSE, FSCleanup |-> FALSE, Transport |-> "rsync",
                 SourceHost |-> FALSE, DestHost |-> FALSE, PreCommand |-> FALSE,
                 PostCommand |-> FALSE, FailCommand |-> FALSE, Filters |-> "none",
                 ExpireDays |-> 0, PromTextFile |-> TRUE, CustomCmd |-> FALSE]
    /\ DestDev = ""
    /\ DestDir = "dir"
    /\ pc = "exited"
    /\ defers = <<>>
    /\ calls = <<>>
    /\ failed = {}
    /\ err = ""
    /\ terr = ""
    /\ res = NoRes
    /\ killedAt = ""
    /\ exit = 0
    /\ execs = <<>>
    /\ devs = <<>>

\* One run of the program; no writer is active.
Init == RunInit /\ PromIdle /\ ExecIdle /\ UnitIdle /\ CfgIdle /\ CmdIdle

Next ==
    \/ MainStart
    \/ RunStart
    \/ CheckMountPoint
    \/ OpenLuks
    \/ CleanFilesystem
    \/ MountDev
    \/ NewTransport
    \/ PreHook
    \/ TransportBegin
    \/ TransportExec
    \/ TransportExpire
    \/ TransportFinish
    \/ PostHook
    \/ RunDefer
    \/ RunReturn
    \/ MainAfterRun
    \/ Signal

\* One run of the program.
Spec == Init /\ [][Next]_vars

PromNext ==
    \E p \in Procs :
        \/ WOpenLock(p)
        \/ WFlock(p)
        \/ WRead(p)
        \/ WBuild(p)
        \/ WWriteTemp(p)
        \/ WRename(p)
        \/ WReturn(p)

InitProm == RunIdle /\ PromInit /\ ExecIdle /\ UnitIdle /\ CfgIdle /\ CmdIdle

\* Concurrent writers of one textfile.
SpecProm == InitProm /\ [][PromNext]_vars

ExecNext ==
    \/ ExecStart
    \/ \E s \in Streams : ChildWrite(s)
    \/ ChildExit
    \/ \E s \in Streams : StreamRead(s)
    \/ \E s \in Streams : StreamEOF(s)
    \/ ExecRecvOut
    \/ ExecRecvErr
    \/ ExecWait
    \/ RsyncResult

InitExec == RunIdle /\ PromIdle /\ ExecInit /\ UnitIdle /\ CfgIdle /\ CmdIdle

\* One call of Exec with its child and its two stream goroutines.
SpecExec == InitExec /\ [][ExecNext]_vars

TransportNext ==
    \/ TransportNew
    \/ TransportRun

InitTransport == RunIdle /\ PromIdle /\ ExecIdle /\ UnitInit /\ CfgIdle /\ CmdIdle

\* One transport constructed and run on its own.
SpecTransport == InitTransport /\ [][TransportNext]_vars

ConfigNext ==
    \/ MainParseConfig
    \/ MainAfterParse

InitConfig == RunIdle /\ PromIdle /\ ExecIdle /\ UnitIdle /\ CfgInit /\ CmdIdle

\* main reading one configuration file.
SpecConfig == InitConfig /\ [][ConfigNext]_vars

CommandNext ==
    \/ RunCommandStart
    \/ \E s \in Streams : ExecutorLine(s)
    \/ ExecutorReturn
    \/ RunCommandReturn

InitCommand == RunIdle /\ PromIdle /\ ExecIdle /\ UnitIdle /\ CfgIdle /\ CmdInit

\* One call of RunCommand.
SpecCommand == InitCommand /\ [][CommandNext]_vars

(***************************************************************************)
(* Properties of the orchestrator, checked under Spec.                     *)
(***************************************************************************)

Called(tag) == \E i \in 1..Len(calls) : calls[i] = tag

\* cryptsetup luksOpen was run and succeeded.
LuksOpened == Called("LUKS_OPEN") /\ "LUKS_OPEN" \notin failed

\* mount was run and succeeded (its temporary directory exists).
DevMounted == Called("MOUNT") /\ "MOUNT" \notin failed

\* transp.Run was called and returned nil.
TransportSucceeded == Called("TRANSPORT_RETURN") /\ "TRANSPORT" \notin failed

\* transp.Run was called and returned an error.
TransportFailed == Called("TRANSPORT_RETURN") /\ "TRANSPORT" \in failed

\* Backup.Run has returned to main.
Returned == pc \in {"returned", "exited"}

\* Every release due for a successful acquisition was invoked exactly once,
\* and none without its acquisition.
TeardownDone ==
    /\ Count("LUKS_CLOSE", calls) = (IF LuksOpened THEN 1 ELSE 0)
    /\ Count("UMOUNT", calls) = (IF DevMounted THEN 1 ELSE 0)
    /\ Count("RMDIR", calls) = (IF DevMounted THEN 1 ELSE 0)

\* C1: in a non-dry-run, once Backup.Run has returned (on whichever exit
\* path), every acquisition that succeeded (LUKS open, mount with its
\* temporary directory) has had its release invoked exactly once, and the
\* releases come after every forward step and in reverse order of the
\* acquisitions: umount, then removal of the directory, then luksClose.
C1_ReleaseOnceInReverse ==
    (Returned /\ ~config.dryRun) =>
        /\ TeardownDone
        /\ Before({"LUKS_OPEN"}, {"MOUNT"}, calls)
        /\ Before({"UMOUNT"}, {"RMDIR"}, calls)
        /\ Before({"UMOUNT", "RMDIR"}, {"LUKS_CLOSE"}, calls)
        /\ Before(ExecTags \ ReleaseTags, ReleaseTags, calls)

\* C1 witness: the transport failed with a LUKS device open and mounted,
\* and Run has returned.
C1_Witness ==
    /\ pc = "returned"
    /\ ~config.dryRun
    /\ LuksOpened
    /\ DevMounted
    /\ TransportFailed
    /\ Called("LUKS_CLOSE")

\* C2: when the transport fails in a non-dry-run with fail_command set, the
\* fail-hook has run exactly once by the time Run returns, after the
\* transport and before any teardown, the run reports the transport's
\* failure and the post-hook has not run; when the transport succeeds the
\* fail-hook never runs.
C2_FailHookOnFailure ==
    /\ (Returned /\ TransportFailed /\ config.FailCommand /\ ~config.dryRun) =>
          /\ Count("FAIL", calls) = 1
          /\ Before(TransportEvents, {"FAIL"}, calls)
          /\ Before({"FAIL"}, ReleaseTags \cup {"SLEEP"}, calls)
          /\ err = "transport"
          /\ ~Called("POST")
    /\ TransportSucceeded => ~Called("FAIL")

\* C3: in a run that has registered teardowns, no SIGINT or SIGTERM
\* delivered while the transport runs terminates the orchestrator (which
\* would leave the fail-hook and the registered teardowns undone).
C3_SignalsMaskedDuringTransport ==
    (~config.dryRun /\ defers # <<>>) => killedAt \notin TransportPcs

\* C4: on every exit of the process, by return or by signal, every
\* acquired resource (LUKS mapper device, mounted destination and its
\* temporary directory, temporary filter files) has had its release invoked.
C4_ReleasedOnEveryExit ==
    pc \in {"exited", "killed"} =>
        /\ LuksOpened => Called("LUKS_CLOSE")
        /\ DevMounted => Called("UMOUNT") /\ Called("RMDIR")
        /\ Count("MKFILTER", calls) = Count("RMFILTER", calls)

C6_PreHookFailure ==
    "PRE" \in failed =>
        /\ config.PreCommand
        /\ err = "pre"
        /\ Positions(TransportEvents \cup {"POST", "FAIL"}, calls) = {}
        /\ Returned => TeardownDone
        /\ pc = "exited" => exit = 1

\* C6 witness: the pre-hook failed with a LUKS device open and mounted,
\* and the process has exited.
C6_Witness ==
    /\ "PRE" \in failed
    /\ LuksOpened
    /\ DevMounted
    /\ Called("UMOUNT")
    /\ Called("LUKS_CLOSE")
    /\ pc = "exited"

\* C7: the post-hook is executed (at most once) if and only if post_command
\* is set, the run is not a dry-run and the transport returned success; it
\* comes after everything the transport does and before every release; and
\* when it exits non-zero the run reports failure.
C7_PostHook ==
    /\ Count("POST", calls) <= 1
    /\ Called("POST") => (config.PostCommand /\ ~config.dryRun /\ TransportSucceeded)
    /\ (pc \in {"unwind", "returned", "exited"} /\ config.PostCommand
          /\ ~config.dryRun /\ TransportSucceeded) => Called("POST")
    /\ Before(TransportEvents, {"POST"}, calls)
    /\ Before({"POST"}, ReleaseTags, calls)
    /\ ("POST" \in failed /\ pc \in {"unwind", "returned", "exited"}) => err = "post"
    /\ ("POST" \in failed /\ pc = "exited") => exit = 1

\* C7 witness: the post-hook ran after a successful transport and failed,
\* the device was unmounted afterwards and the process exited non-zero.
C7_Witness ==
    /\ "POST" \in failed
    /\ TransportSucceeded
    /\ Called("UMOUNT")
    /\ pc = "exited"
    /\ exit = 1

\* C8: after a failed precondition nothing is acquired and nothing released:
\* when the source is not a mount point no process is ever spawned; when the
\* mapper device node exists cryptsetup luksOpen is never run; in both cases
\* no umount, luksClose or directory removal is ever invoked and the run
\* fails.
C8_PreconditionFailure ==
    /\ "ISMOUNTED" \in failed =>
          /\ Positions(ExecTags \cup ReleaseTags \cup {"MKTMP"}, calls) = {}
          /\ err = "mountpoint"
    /\ "DEVFILE" \in failed =>
          /\ ~Called("LUKS_OPEN")
          /\ Positions(ReleaseTags \cup {"MKTMP", "MOUNT"}, calls) = {}
          /\ err = "luks"
    /\ (failed \cap {"ISMOUNTED", "DEVFILE"} # {} /\ pc = "exited") => exit = 1

\* C8 witness: the mapper device node existed after a passed mount-point
\* check, and the process has exited.
C8_Witness ==
    /\ "DEVFILE" \in failed
    /\ Called("ISMOUNTED")
    /\ pc = "exited"

\* C8 second case reached as well: the source was not a mount point.
C8_WitnessMountPoint ==
    /\ "ISMOUNTED" \in failed
    /\ config.dest = "luks"
    /\ pc = "exited"

\* The steps of the pipeline whose failure fails the run.
PipelineSteps ==
    {"ISMOUNTED", "DEVFILE", "LUKS_OPEN", "FSCK", "TUNE2FS", "MKTMP", "MOUNT",
     "NEWTRANSPORT", "PRE", "TRANSPORT", "POST"}

\* C12: the metrics textfile is written (at most once) only when it is
\* configured and Backup.Run returned success, that is after preparation,
\* pre-hook, transport and post-hook all succeeded and after the teardown,
\* as the last thing the process does; and when that write fails the
\* process still exits with status 0.
C12_MetricsOnlyOnSuccess ==
    /\ Count("PROMWRITE", calls) <= 1
    /\ Called("PROMWRITE") =>
          /\ config.PromTextFile
          /\ err = ""
          /\ failed \cap PipelineSteps = {}
          /\ TransportSucceeded
          /\ (config.PostCommand /\ ~config.dryRun) => Called("POST")
          /\ calls[Len(calls)] = "PROMWRITE"
          /\ pc = "exited"
          /\ exit = 0
    /\ (pc = "exited" /\ err = "" /\ config.PromTextFile) => Called("PROMWRITE")

\* C12 witness: after a successful run with both hooks and a mounted LUKS
\* device the write of the textfile failed, and the process exited with 0.
C12_Witness ==
    /\ "PROMWRITE" \in failed
    /\ Called("PRE") /\ Called("POST")
    /\ LuksOpened /\ Called("LUKS_CLOSE")
    /\ pc = "exited"
    /\ exit = 0

(***************************************************************************)
(* Properties of the textfile writer, checked under SpecProm.              *)
(***************************************************************************)

\* Positions of the records of f whose name is n.
RecordsFor(f, n) == {i \in 1..Len(f) : f[i].kind = "rec" /\ f[i].name = n}

\* The non-empty lines of f that are not a record for the name n.
OtherLines(f, n) ==
    SelectSeq(f, LAMBDA l : Text(l) # <<>> /\ ~(l.kind = "rec" /\ l.name = n))

\* C9: when all writers, each with a distinct name, have returned success,
\* the file holds exactly one record per writer, one for each name, and no
\* line twice.
C9_OneRecordPerWriter ==
    ((\A p \in Procs : wpc[p] = "done" /\ wres[p] = "ok")
       /\ (\A p, q \in Procs : p # q => wname[p] # wname[q])) =>
        /\ Cardinality({i \in 1..Len(file) : file[i].kind = "rec"}) = NProcs
        /\ \A p \in Procs : Cardinality(RecordsFor(file, wname[p])) = 1
        /\ \A i, j \in 1..Len(file) : i # j => file[i] # file[j]

\* C10: a successful write for the name n leaves exactly one record for n
\* in the file, and every non-empty line of the previous content that is
\* not a record for n is still there, unchanged and in the same order.
C10_OtherLinesIntact ==
    [][\A p \in Procs :
         (wpc[p] = "rename" /\ wres'[p] = "ok") =>
            /\ Cardinality(RecordsFor(file', wname[p])) = 1
            /\ OtherLines(file', wname[p]) = OtherLines(file, wname[p])]_vars

\* The timestamps f stores for the name n.
Timestamps(f, n) == {f[i].ts : i \in RecordsFor(f, n)}

\* C11: a successful write for a name n over a file that already holds a
\* record for n leaves the number of lines of the file unchanged, and the
\* timestamp it stores for n is not smaller than any stored for n before.
C11_RepeatedWrite ==
    [][\A p \in Procs :
         (wpc[p] = "rename" /\ wres'[p] = "ok" /\ RecordsFor(file, wname[p]) # {}) =>
            /\ Len(file') = Len(file)
            /\ \A old \in Timestamps(file, wname[p]), new \in Timestamps(file', wname[p]) :
                 old <= new]_vars

(***************************************************************************)
(* Properties of Exec, stream, ExitCode and the rsync result, checked      *)
(* under SpecExec.                                                         *)
(***************************************************************************)

\* Exec has returned to its caller.
ExecReturned == xpc \in {"returned", "mapped"}

\* No callback has failed.
NoCallbackFailed == \A s \in Streams : xfailAt[s] = 0

RECURSIVE SplitLines(_, _)
\* The lines of a text after the partial line cur: newline ends a line, and
\* a non-empty rest without newline is the last line.
SplitLines(text, cur) ==
    IF text = <<>> THEN (IF cur = <<>> THEN <<>> ELSE <<cur>>)
    ELSE IF Head(text) = "\n" THEN <<cur>> \o SplitLines(Tail(text), <<>>)
    ELSE SplitLines(Tail(text), Append(cur, Head(text)))

\* C13: Exec is at run.Wait only when both stream goroutines have finished;
\* when no callback failed and the child was started, Exec returns what
\* Wait makes of the child's status; a callback is never called again after
\* it failed; and once a callback has failed Exec returns that callback's
\* failure (stdout's before stderr's), whatever the child's status.
C13_ExecOrder ==
    /\ xpc = "wait" => \A s \in Streams : xrpc[s] = "done"
    /\ (ExecReturned /\ xret.kind \in {"nil", "ExitError"}) =>
          /\ \A s \in Streams : xrpc[s] = "done"
          /\ xchild = "exited"
          /\ xret = WaitResult(xstatus)
    /\ (ExecReturned /\ NoCallbackFailed /\ xchild # "none") => xret = WaitResult(xstatus)
    /\ \A s \in Streams :
          xfailAt[s] # 0 => (xrpc[s] = "done" /\ Len(xlines[s]) = xfailAt[s])
    /\ (ExecReturned /\ xfailAt["stdout"] # 0) => xret = CallbackError("stdout")
    /\ (ExecReturned /\ xfailAt["stdout"] = 0 /\ xfailAt["stderr"] # 0) =>
          xret = CallbackError("stderr")

\* C13 witness: the stderr callback failed on a child that exited with
\* status 1 after stdout was read to its end, and Exec returned the
\* callback's failure.
C13_Witness ==
    /\ xpc = "returned"
    /\ xfailAt["stderr"] # 0
    /\ xlines["stdout"] # <<>>
    /\ xchild = "exited"
    /\ xstatus = ExitWord(1)
    /\ xret = CallbackError("stderr")

\* C14: when Exec returns and no callback failed, each callback has been
\* called with exactly the lines the child wrote on its stream, once each
\* and in the order written, a last line without newline included.
C14_EveryLineDelivered ==
    (ExecReturned /\ NoCallbackFailed /\ xchild # "none") =>
        \A s \in Streams : xlines[s] = SplitLines(xwritten[s], <<>>)

\* C15: ExitCode of what Exec returned is in 0..255; it is 0 exactly for
\* nil, the exit status of a child that exited, and 255 when there is no
\* exit status: the child was killed by a signal, or the error is no
\* ExitError.
C15_ExitCodeRange ==
    xpc = "mapped" =>
        /\ xcode \in 0..255
        /\ (xcode = 0) = (xret = Nil)
        /\ (xret.kind = "ExitError" /\ Exited(xret.status)) =>
              xcode = (xret.status \div 256)
        /\ (xret.kind = "ExitError" /\ Signaled(xret.status)) => xcode = 255
        /\ xret.kind \notin {"nil", "ExitError"} => xcode = 255

\* C16: the rsync transport's Run returns nil exactly when rsync was run to
\* its end and exited with code 0 or 24; it returns the executor's error for
\* every other exit code, for a child killed by a signal and for an error
\* that is no ExitError.
C16_RsyncExitCodes ==
    xpc = "mapped" =>
        /\ (xrun = Nil) =
              (/\ xret.kind \in {"nil", "ExitError"}
               /\ xstatus \in {ExitWord(0), ExitWord(24)})
        /\ xrun # Nil => xrun = xret

\* C16 witness: rsync exited with code 24 and Run returned nil.
C16_Witness ==
    /\ xpc = "mapped"
    /\ xret = WaitError(ExitWord(24))
    /\ xrun = Nil

(***************************************************************************)
(* Properties of the transports, checked under Spec.                       *)
(***************************************************************************)

\* The tokens of argv written with the format opt.
TokensWith(opt, argv) == {i \in 1..Len(argv) : argv[i].opt = opt}

\* The invocations made are those with the tags given, in that order.
ExecTagsAre(tags) ==
    /\ Len(execs) = Len(tags)
    /\ \A i \in 1..Len(tags) : execs[i].tag = tags[i]

\* C17: once the transport's Run has returned (with success, with an
\* executor failure, early in a dry-run, or after failing to create a later
\* pattern file) every temporary pattern file it created has been removed,
\* each once, before the return.
C17_FilterFilesRemoved ==
    /\ Called("TRANSPORT_RETURN") =>
          /\ res.filters = 0
          /\ Count("MKFILTER", calls) = Count("RMFILTER", calls)
          /\ Before({"MKFILTER"}, {"RMFILTER"}, calls)
          /\ Before({"RMFILTER"}, {"TRANSPORT_RETURN"}, calls)
    /\ ~Called("TRANSPORT_RETURN") => res.filters = Count("MKFILTER", calls)

\* C17 witness: rdiff-backup created its exclude file, failed to create its
\* include file, and Run has returned.
C17_Witness ==
    /\ config.Transport = "rdiff-backup"
    /\ config.Filters = "both"
    /\ Count("MKFILTER", calls) = 1
    /\ terr = "filter"
    /\ Called("TRANSPORT_RETURN")

\* C18: once the restic transport has returned in a non-dry-run: with
\* expire_days = 0 it made exactly one invocation, the backup; with
\* expire_days > 0 it made the backup and, only if that succeeded, then the
\* expiration, whose command line starts with the executable, ends with
\* forget --keep-within=<N>d --prune, names the repository, and holds
\* neither the backup token nor the source directory.
C18_ResticExpire ==
    (config.Transport = "restic" /\ ~config.dryRun /\ Called("TRANSPORT_RETURN")
       /\ execs # <<>>) =>
        IF config.ExpireDays > 0 /\ execs[1].rc = 0
        THEN /\ ExecTagsAre(<<"RESTIC", "RESTIC_FORGET">>)
             /\ LET a == execs[2].argv
                    n == Len(a)
                IN /\ a[1] = Tok("restic")
                   /\ SubSeq(a, n - 2, n) =
                         <<Tok("forget"),
                           Opt("--keep-within=", Decimal(config.ExpireDays) \o <<"d">>),
                           Tok("--prune")>>
                   /\ \E i \in 1..(n - 1) :
                        a[i] = Tok("--repo") /\ a[i + 1] = BuildDest(":")
                   /\ TokensWith("backup", a) = {}
                   /\ TokensWith(SourceDir, a) = {}
        ELSE ExecTagsAre(<<"RESTIC">>)

\* C19: every command line the restic transport hands to the executor
\* holds, when exclude is non-empty, exactly one --exclude-file= token, its
\* path is not empty and is the name of the temporary file created, and
\* that file exists during the invocation; when exclude is empty it holds
\* no such token and no file is created.
C19_ResticExcludeFile ==
    config.Transport = "restic" =>
        \A i \in 1..Len(execs) :
            LET toks == TokensWith("--exclude-file=", execs[i].argv) IN
            IF HasExclude
            THEN /\ Cardinality(toks) = 1
                 /\ \A t \in toks :
                      /\ execs[i].argv[t].val # <<"">>
                      /\ execs[i].argv[t].val = <<TempFileName("exclude")>>
                 /\ execs[i].files = 1
            ELSE /\ toks = {}
                 /\ ~Called("MKFILTER")

\* C20: once the rdiff-backup transport has returned in a non-dry-run: with
\* expire_days = 0 only the copy was invoked; with expire_days = N > 0 the
\* copy was invoked and, only if it succeeded, then exactly one invocation
\* rdiff-backup --remove-older-than=<N>D --force <destination>; when the
\* copy failed there is no second invocation and the transport failed.
C20_RdiffExpire ==
    (config.Transport = "rdiff-backup" /\ ~config.dryRun /\ Called("TRANSPORT_RETURN")
       /\ execs # <<>>) =>
        /\ execs[1].tag = "RDIFF"
        /\ IF config.ExpireDays > 0 /\ execs[1].rc = 0
           THEN /\ ExecTagsAre(<<"RDIFF", "RDIFF_EXPIRE">>)
                /\ execs[2].argv =
                      <<Tok("rdiff-backup"),
                        Opt("--remove-older-than=", Decimal(config.ExpireDays) \o <<"D">>),
                        Tok("--force"),
                        IF config.DestHost THEN Opt("desthost::", <<DestDir>>)
                        ELSE Tok(DestDir)>>
           ELSE ExecTagsAre(<<"RDIFF">>)
        /\ execs[1].rc # 0 => TransportFailed

\* C20 witness: with expire_days = 1 the copy succeeded, the expiration
\* was run and failed, and the process has exited.
C20_Witness ==
    /\ config.Transport = "rdiff-backup"
    /\ config.ExpireDays = 1
    /\ Len(execs) = 2
    /\ execs[2].rc = 1
    /\ TransportFailed
    /\ pc = "exited"

(***************************************************************************)
(* Properties of main and of the order of Backup.Run, checked under Spec.  *)
(***************************************************************************)

\* The forward steps of Backup.Run, as they appear in the trace.
ForwardTags ==
    {"ISMOUNTED", "LUKS_OPEN", "FSCK", "TUNE2FS", "MKTMP", "MOUNT", "NEWTRANSPORT",
     "PRE", "POST"} \cup TransportEvents

\* The entries s2 has after those of s1.
Added(s1, s2) == {s2[i] : i \in (Len(s1) + 1)..Len(s2)}

\* C24: with transport = custom and a custom_cmd the transport is
\* constructed and, in a non-dry-run, makes exactly one invocation, tagged
\* CUSTOM, of [shell, -c, --, custom_cmd]; with an empty custom_cmd its
\* construction fails; rsync, rclone, rdiff-backup and restic are
\* constructed whenever their configuration check passes; any other value
\* fails the run as an unknown transport; and no failed construction is
\* followed by an invocation.
C24_TransportDispatch ==
    /\ (Called("NEWTRANSPORT") /\ pc # "newtransport") =>
          /\ ("NEWTRANSPORT" \in failed) =
                CASE config.Transport = "custom" -> ~config.CustomCmd
                  [] config.Transport = "bogus" -> TRUE
                  [] OTHER -> ~CheckConfigOK
          /\ "NEWTRANSPORT" \in failed =>
                (execs = <<>> /\ Positions(TransportEvents, calls) = {})
          /\ (config.Transport = "bogus" /\ Returned) => err = "unknown"
    /\ (config.Transport = "custom" /\ ~config.dryRun /\ Called("TRANSPORT_RETURN")) =>
          /\ ExecTagsAre(<<"CUSTOM">>)
          /\ execs[1].argv = <<Tok("$SHELL"), Tok("-c"), Tok("--"), Tok("custom_cmd")>>

C29_ForwardOrder ==
    [][(~config.dryRun /\ calls' # calls) =>
         /\ \A t \in ForwardTags \ {"MKFILTER", "RMFILTER"} : Count(t, calls') <= 1
         /\ Before({"ISMOUNTED"}, {"LUKS_OPEN"}, calls')
         /\ Before({"ISMOUNTED", "LUKS_OPEN"}, {"FSCK"}, calls')
         /\ Before({"FSCK"}, {"TUNE2FS"}, calls')
         /\ Before({"ISMOUNTED", "LUKS_OPEN", "FSCK", "TUNE2FS"}, {"MKTMP", "MOUNT"}, calls')
         /\ Before({"ISMOUNTED", "LUKS_OPEN", "FSCK", "TUNE2FS", "MKTMP", "MOUNT"},
                   {"NEWTRANSPORT"}, calls')
         /\ Before({"NEWTRANSPORT"}, {"PRE"}, calls')
         /\ Before({"NEWTRANSPORT", "PRE"}, TransportEvents, calls')
         /\ Before(TransportEvents, {"POST"}, calls')
         /\ (failed \cap PipelineSteps # {}) =>
               Added(calls, calls') \subseteq ReleaseTags \cup {"SLEEP", "FAIL"}]_vars

\* C29 witness: tune2fs failed on an opened LUKS device after a passed
\* mount-point check, and the process has exited after closing the device.
C29_Witness ==
    /\ "TUNE2FS" \in failed
    /\ Called("ISMOUNTED")
    /\ LuksOpened
    /\ Called("LUKS_CLOSE")
    /\ pc = "exited"

\* C30: every umount comes right after a sleep that follows every forward
\* step, and every luksClose comes right after a sleep that follows every
\* forward step and the removal of the mount directory.
C30_SleepBeforeRelease ==
    \A i \in 1..Len(calls) :
        /\ calls[i] = "UMOUNT" =>
              /\ i > 1
              /\ calls[i - 1] = "SLEEP"
              /\ \A j \in Positions(ForwardTags, calls) : j < i - 1
        /\ calls[i] = "LUKS_CLOSE" =>
              /\ i > 1
              /\ calls[i - 1] = "SLEEP"
              /\ \A j \in Positions(ForwardTags \cup {"RMDIR"}, calls) : j < i - 1

\* C30 witness: a mounted LUKS device was unmounted and closed after a
\* failed post-hook.
C30_Witness ==
    /\ "POST" \in failed
    /\ Called("UMOUNT")
    /\ Called("RMDIR")
    /\ Called("LUKS_CLOSE")
    /\ Count("SLEEP", calls) = 2

(***************************************************************************)
(* Properties of the transports' command lines, checked under              *)
(* SpecTransport.                                                          *)
(***************************************************************************)

\* The tokens of a string that blanks separate, none of them empty.
Fields(s) == SelectSeq(Split(s, " "), LAMBDA t : t # <<>>)

\* The name of the program a transport starts by default.
DefaultName(c) == << <<c.Transport>> >>

\* The leading tokens a command line is to have for the configuration c.
ExpectedExecutable(c) ==
    IF c.CustomBin # <<>> THEN Fields(c.CustomBin) ELSE DefaultName(c)

\* a is the beginning of b.
IsPrefix(a, b) == Len(a) <= Len(b) /\ SubSeq(b, 1, Len(a)) = a

\* The pieces that open a pattern-file argument.
FilterOptions == {"--filter=merge ", "--filter-from=", "--exclude-file="}

\* C21: every command line that rsync, rclone, rdiff-backup or restic hand
\* to the executor starts with the blank-separated tokens of custom_bin, in
\* order, when custom_bin is set, and with the default program name when it
\* is not, and no token of the command line is empty.
C21_CustomBinTokens ==
    (ucfg.Transport # "custom") =>
        \A i \in 1..Len(uexecs) :
            /\ IsPrefix(ExpectedExecutable(ucfg), uexecs[i])
            /\ \A j \in 1..Len(uexecs[i]) : uexecs[i][j] # <<>>

\* C22: a run of rsync that is not a dry-run makes one invocation, of the
\* executable tokens, -avAXH --delete --numeric-ids, --filter=merge <path
\* of the filter file> iff include or exclude is non-empty,
\* --delete-excluded iff exclude is non-empty, the extra_args in order, the
\* source (after <source_host>: if set) with a / added unless it ends in
\* one, and the destination (after <dest_host>: if set).
C22_RsyncCommandLine ==
    (ucfg.Transport = "rsync" /\ ~ucfg.dryRun /\ upc = "done") =>
        /\ Len(uexecs) = 1
        /\ uexecs[1] =
              ExpectedExecutable(ucfg)
              \o << <<"-avAXH">>, <<"--delete">>, <<"--numeric-ids">> >>
              \o (IF ucfg.Include # <<>> \/ ucfg.Exclude # <<>>
                  THEN << <<"--filter=merge ">> \o ufiles[1] >> ELSE <<>>)
              \o (IF ucfg.Exclude # <<>> THEN << <<"--delete-excluded">> >> ELSE <<>>)
              \o ucfg.ExtraArgs
              \o << (IF ucfg.SourceHost # <<>> THEN ucfg.SourceHost \o <<":">> ELSE <<>>)
                    \o ucfg.SourceDir
                    \o (IF ucfg.SourceDir[Len(ucfg.SourceDir)] = "/" THEN <<>> ELSE <<"/">>),
                    (IF ucfg.DestHost # <<>> THEN ucfg.DestHost \o <<":">> ELSE <<>>)
                    \o ucfg.DestDir >>

\* The configurations the constructor of a transport is to refuse.
Refused(c) ==
    CASE c.Transport \in {"rsync", "rdiff-backup"} ->
            \/ c.SourceDir = <<>>
            \/ c.DestDir = <<>>
            \/ (c.SourceHost # <<>> /\ c.DestHost # <<>>)
      [] c.Transport = "restic" ->
            \/ c.SourceDir = <<>>
            \/ c.DestDir = <<>>
            \/ c.Include # <<>>
            \/ c.SourceHost # <<>>
      [] c.Transport = "rclone" ->
            \/ c.SourceDir = <<>>
            \/ c.DestDir = <<>>
      [] OTHER -> FALSE

\* C23: the constructor of rsync and rdiff-backup fails exactly when
\* source_dir is empty, dest_dir is empty or both hosts are set, that of
\* restic exactly when source_dir is empty, dest_dir is empty, include is
\* non-empty or source_host is set, that of rclone exactly when source_dir
\* or dest_dir is empty (both hosts set are accepted); and after a failed
\* construction the executor is never called.
C23_ConstructionFails ==
    ucfg.Transport # "custom" =>
        /\ upc # "new" => ((uerr # "") = Refused(ucfg))
        /\ uerr # "" => (upc = "failed" /\ uexecs = <<>> /\ ulogs = <<>>)

\* C23 witness: restic was refused for its include list alone.
C23_Witness ==
    /\ ucfg.Transport = "restic"
    /\ ucfg.Include # <<>>
    /\ ucfg.SourceDir # <<>>
    /\ ucfg.DestDir # <<>>
    /\ ucfg.SourceHost = <<>>
    /\ upc = "failed"
    /\ uexecs = <<>>

\* A logged text with the random part of every temporary name blanked.
Masked(log) ==
    [i \in 1..Len(log) |->
        [j \in 1..Len(log[i]) |-> IF log[i][j] \in TempSuffixes THEN "*" ELSE log[i][j]]]

\* C27 as stated: two successive dry-runs of one configuration log the same
\* command lines, whatever its include and exclude lists.
C27_DryRunsIdentical ==
    (ucfg.dryRun /\ Len(ulogs) = 2) => ulogs[1] = ulogs[2]

\* C27: two successive dry-runs of one configuration log command lines
\* that are the same but for the random part of the name of a temporary
\* pattern file, and the same throughout when include and exclude are
\* both empty.
C27_DryRunsIdenticalButTempNames ==
    (ucfg.dryRun /\ Len(ulogs) = 2) =>
        /\ Masked(ulogs[1]) = Masked(ulogs[2])
        /\ (ucfg.Include = <<>> /\ ucfg.Exclude = <<>>) => ulogs[1] = ulogs[2]

\* C27 witness: two dry-runs of rsync with an exclude list logged command
\* lines that differ.
C27_Witness ==
    /\ ucfg.dryRun
    /\ ucfg.Transport = "rsync"
    /\ ucfg.Exclude # <<>>
    /\ Len(ulogs) = 2
    /\ ulogs[1] # ulogs[2]
    /\ upc = "done"

Destinations(c) ==
    Cardinality({f \in {"DestDir", "DestDev", "LuksDestDev"} : c[f] # ""})

\* What a configuration file has to satisfy to be accepted.
Acceptable(c) ==
    /\ Destinations(c) = 1
    /\ c.LuksDestDev # "" => c.LuksKeyFile
    /\ ~((c.DestDev # "" \/ c.LuksDestDev # "") /\ c.DestHost)
    /\ c.FSCleanup => (c.DestDev # "" \/ c.LuksDestDev # "")
    /\ c.SourceIsMountPoint => ~c.SourceHost

\* C25: ParseConfig returns no error only for a configuration that sets
\* exactly one of dest_dir, dest_dev and luks_dest_dev, a luks_key_file with
\* luks_dest_dev, no dest_host with a device, fs_cleanup only with a device
\* and source_is_mountpoint only without source_host; for every other
\* configuration it returns an error, and main exits on it without
\* reaching NewBackup and Backup.Run.
C25_ParseConfigAccepts ==
    /\ (cpc # "parse" /\ cerr = "") => Acceptable(raw)
    /\ ~Acceptable(raw) => cpc # "core"

\* C25 witness: main has exited on a configuration that is in order but
\* for setting both dest_dir and dest_dev.
C25_Witness ==
    /\ cpc = "fatal"
    /\ raw.decode = "ok"
    /\ raw.Name /\ raw.Transport /\ raw.SourceDir = "/abs"
    /\ raw.DestDir = "/abs" /\ raw.DestDev = "/abs" /\ raw.LuksDestDev = ""
    /\ ~raw.DestHost /\ ~raw.FSCleanup /\ ~raw.SourceIsMountPoint
    /\ cerr = "only one destination may be set"

(***************************************************************************)
(* Properties of the preparation and teardown of the destination device,   *)
(* checked under Spec.                                                     *)
(***************************************************************************)

\* The device the commands of the preparation are to work on.
EffectiveDev == IF config.dest = "luks" THEN "mapper" ELSE "dev"

\* The devices the commands with this tag were given.
DevsOf(tag) == {devs[i].dev : i \in {j \in 1..Len(devs) : devs[j].tag = tag}}

\* C31: with fs_cleanup set, fsck is given the effective destination
\* device (the mapper device with LUKS) and comes before the mount;
\* tune2fs runs exactly when fsck succeeded; and when fsck or tune2fs
\* failed the device is never mounted, no transport is constructed or run,
\* no hook runs, and once Run has returned luksClose has been invoked for
\* a LUKS device that was opened.
C31_CleanupBeforeMount ==
    config.FSCleanup =>
        /\ DevsOf("FSCK") \subseteq {EffectiveDev}
        /\ DevsOf("TUNE2FS") \subseteq {EffectiveDev}
        /\ (Called("MKTMP") \/ Called("MOUNT")) =>
              /\ Called("FSCK")
              /\ Before({"FSCK", "TUNE2FS"}, {"MKTMP", "MOUNT"}, calls)
        /\ Called("FSCK") => (Called("TUNE2FS") = ("FSCK" \notin failed))
        /\ Before({"FSCK"}, {"TUNE2FS"}, calls)
        /\ (failed \cap {"FSCK", "TUNE2FS"} # {}) =>
              /\ Positions({"MKTMP", "MOUNT", "NEWTRANSPORT", "PRE", "POST", "FAIL"}
                           \cup TransportEvents, calls) = {}
              /\ (Returned /\ LuksOpened) => Called("LUKS_CLOSE")

\* C31 witness: fsck failed on the mapper device of an opened LUKS device,
\* and Run has returned after luksClose.
C31_Witness ==
    /\ pc = "returned"
    /\ config.dest = "luks"
    /\ "FSCK" \in failed
    /\ DevsOf("FSCK") = {"mapper"}
    /\ ~Called("TUNE2FS")
    /\ Called("LUKS_CLOSE")

\* C32: once Run has returned, with every teardown command that ran
\* having succeeded, no temporary mount directory is left, also when the
\* mount command failed after the directory was created.
C32_MountDirRemoved ==
    (Returned /\ failed \cap {"UMOUNT", "RMDIR"} = {}) => ~res.tmpdir

\* C33: Run leaves the configuration as it is but for dest_dev and
\* dest_dir; dest_dev changes only to the mapper device when luksOpen has
\* succeeded, or to its placeholder in a dry-run; dest_dir changes only to
\* the mount directory when the mount has succeeded, or to its placeholder
\* in a dry-run; neither changes once the transport is being constructed;
\* and in a non-dry-run the transport of a device destination is
\* constructed with dest_dir the directory the device is mounted on.
C33_OnlyDestDevAndDestDir ==
    [][/\ config' = config
       /\ DestDev' # DestDev =>
             IF config.dryRun
             THEN DestDev' = "dummy_dest_dev"
             ELSE /\ DestDev' = "mapper"
                  /\ res'.luks
                  /\ "LUKS_OPEN" \notin failed'
                  /\ calls' = Append(calls, "LUKS_OPEN")
       /\ DestDir' # DestDir =>
             IF config.dryRun
             THEN DestDir' = "dummy_dest_dir"
             ELSE /\ DestDir' = "tmpdir"
                  /\ res'.mounted
                  /\ "MOUNT" \notin failed'
                  /\ calls' = calls \o <<"MKTMP", "MOUNT">>
       /\ (pc = "newtransport" \/ Called("NEWTRANSPORT")) =>
             (DestDev' = DestDev /\ DestDir' = DestDir)
       /\ (pc = "newtransport" /\ ~config.dryRun /\ config.dest # "dir") =>
             (DestDir = "tmpdir" /\ res.mounted /\ DestDev = EffectiveDev)]_vars

\* C33 witness: the transport has been constructed for a LUKS destination
\* that was opened and mounted.
C33_Witness ==
    /\ ~config.dryRun
    /\ config.dest = "luks"
    /\ Called("NEWTRANSPORT")
    /\ "NEWTRANSPORT" \notin failed
    /\ DestDev = "mapper"
    /\ DestDir = "tmpdir"

\* C39: the result of Run is fixed at its return statement and no deferred
\* call changes it; each deferred call is followed by the next one whether
\* it failed or not; so once Run has returned every release of an acquired
\* resource has been invoked once, with its sleep, also after a umount or a
\* luksClose that failed, and the process exits with 0 exactly when Run
\* returned no error.
C39_TeardownFailureIgnored ==
    [][/\ pc = "unwind" =>
             /\ err' = err
             /\ pc' = "returned" => defers = <<>>
             /\ (defers # <<>> /\ pc' = "unwind") =>
                   defers' = SubSeq(defers, 1, Len(defers) - 1)
       /\ (pc' = "returned" /\ ~config.dryRun) =>
             /\ Count("UMOUNT", calls') = (IF DevMounted THEN 1 ELSE 0)
             /\ Count("RMDIR", calls') = (IF DevMounted THEN 1 ELSE 0)
             /\ Count("LUKS_CLOSE", calls') = (IF LuksOpened THEN 1 ELSE 0)
             /\ Count("SLEEP", calls') =
                   (IF DevMounted THEN 1 ELSE 0) + (IF LuksOpened THEN 1 ELSE 0)
       /\ (pc = "returned" /\ pc' = "exited") => ((exit' = 0) = (err = ""))]_vars

\* C39 witness: umount and luksClose both failed after a backup that
\* succeeded, and the process has exited with 0.
C39_Witness ==
    /\ {"UMOUNT", "LUKS_CLOSE"} \subseteq failed
    /\ Called("RMDIR")
    /\ Called("LUKS_CLOSE")
    /\ TransportSucceeded
    /\ err = ""
    /\ pc = "exited"
    /\ exit = 0

\* C40: in a dry-run the metrics textfile is never written.
C40_DryRunWritesNoMetrics ==
    config.dryRun => ~Called("PROMWRITE")

(***************************************************************************)
(* Properties of the lock and of the visible content of the textfile,      *)
(* checked under SpecProm.                                                 *)
(***************************************************************************)

\* The writer is between its Flock(LOCK_EX) and its Flock(LOCK_UN).
InCritical(p) == wpc[p] \in {"read", "build", "temp", "rename", "unwind"}

\* The temporary file of the writer is the same before and after the step.
SameTemp(p) ==
    IF wtemp[p] = "none" \/ wtemp'[p] = "none"
    THEN (wtemp[p] = "none") = (wtemp'[p] = "none")
    ELSE wtemp'[p] = wtemp[p]

\* C34: the writers of the textfile share one lock; at most one writer at a
\* time is between taking it and releasing it, and that writer is its
\* holder; a writer reads the textfile, writes its temporary file and
\* renames it only while it holds the lock, and gives the lock up only
\* after its rename (or its failure), when its temporary file is gone.
C34_WritersExcludeEachOther ==
    [][/\ \A p, q \in Procs : (InCritical(p) /\ InCritical(q)) => p = q
       /\ \A p \in Procs :
            /\ InCritical(p) => lock = p
            /\ (wdata'[p] # wdata[p] \/ wout'[p] # wout[p] \/ ~SameTemp(p)) =>
                  (lock = p /\ (lock' = p \/ wpc[p] = "unwind"))
            /\ (file' # file /\ wpc'[p] # wpc[p]) => (lock = p /\ lock' = p)
            /\ (lock = p /\ lock' # p) =>
                  /\ lock' = 0
                  /\ wpc[p] = "unwind"
                  /\ wres[p] \in {"ok", "error"}
                  /\ wres[p] = "ok" => file = wout[p]]_vars

\* C34 witness: one writer is about to rename while the other waits for
\* the lock.
C34_Witness ==
    \E p, q \in Procs :
        /\ p # q
        /\ wpc[p] = "rename"
        /\ lock = p
        /\ wpc[q] = "flock"

\* C35: the content of the textfile changes only by the rename of a
\* writer that then returns success, and becomes the whole output that
\* writer built (the lines it kept and its record); a writer that returns an
\* error has left the content as it was since it took the lock; and after a
\* writer has returned, with success or not, its temporary file is gone.
C35_SnapshotsOnly ==
    [][/\ file' # file =>
             \E p \in Procs :
                /\ wpc[p] = "rename"
                /\ wres'[p] = "ok"
                /\ file' = wout[p]
                /\ \E t \in 0..MaxClock : wout[p] = Rebuild(wdata[p], wname[p], t)
       /\ \A p \in Procs :
            /\ (wres[p] = "" /\ wres'[p] = "error") =>
                  /\ file' = file
                  /\ wpc[p] \in {"build", "temp", "rename"} => file = wdata[p]
            /\ wpc'[p] = "done" => wtemp'[p] = "none"]_vars

\* C35 witness: a writer has failed after it had written its temporary
\* file, which is gone, and the textfile holds the output of the other.
C35_Witness ==
    \E p, q \in Procs :
        /\ p # q
        /\ wpc[p] = "done"
        /\ wres[p] = "error"
        /\ CompileOK(wname[p])
        /\ wout[p] # <<>>
        /\ wtemp[p] = "none"
        /\ wres[q] = "ok"
        /\ file = wout[q]
        /\ file # wout[p]

(***************************************************************************)
(* Properties of the end of Exec: the child reaped, nobody left blocked.   *)
(* Checked under SpecExec.                                                 *)
(***************************************************************************)

\* C37: when an Exec that started a child has returned, the child has
\* exited and Exec has been through run.Wait, whose result it returns, also
\* when a callback failed.
C37_ChildReaped ==
    (ExecReturned /\ xchild # "none") =>
        (xchild = "exited" /\ xret = WaitResult(xstatus))

\* The child has output left and every stream it has yet to write on has a
\* full pipe whose reader has finished.
ChildBlocked ==
    /\ xchild = "running"
    /\ \E s \in Streams : xsrc[s] # <<>>
    /\ \A s \in Streams :
         xsrc[s] # <<>> => (Len(xpipe[s]) >= PipeCap /\ xrpc[s] = "done")

\* Exec is at a receive from a channel nothing has been sent on, or in
\* run.Wait, and the readers still running have nothing to read.
ParentBlocked ==
    /\ xpc \in {"recv_out", "recv_err", "wait"}
    /\ xpc = "recv_out" => xchan["stdout"] = "empty"
    /\ xpc = "recv_err" => xchan["stderr"] = "empty"
    /\ \A s \in Streams : xrpc[s] = "scan" => xpipe[s] = <<>>

\* C38: the child is never blocked writing to a pipe nobody reads while
\* Exec is blocked waiting for a reader or for the child.
C38_NobodyBlocked ==
    ~(ChildBlocked /\ ParentBlocked)

(***************************************************************************)
(* Properties of RunCommand, checked under SpecCommand.                    *)
(***************************************************************************)

\* v stands somewhere in l.
IsSubstring(v, l) ==
    \E a \in 0..Len(l) : \E b \in a..Len(l) : SubSeq(l, a + 1, b) = v

\* The line contains none of the entries of the spam list of its stream.
NotSpam(s, l) == \A i \in 1..Len(rfilter[s]) : ~IsSubstring(rfilter[s][i], l)

\* The lines of a stream that were logged, in order.
LoggedLines(s) ==
    LET own == SelectSeq(rlog, LAMBDA e : e.stream = s) IN
      [i \in 1..Len(own) |-> own[i].line]

\* C36: RunCommand returns the value its executor returned, nil as nil and
\* every error as it is; the lines it has logged for a stream are, in
\* order, the lines the callback of that stream was called with that
\* contain no entry of the stream's spam list; and no callback returns an
\* error.
C36_RunCommandResult ==
    /\ rpc = "returned" => rret = rexec
    /\ \A s \in Streams :
         LoggedLines(s) = SelectSeq(rgiven[s], LAMBDA l : NotSpam(s, l))
    /\ rcb = Nil

\* C36 witness: RunCommand has returned the wait error of a child that
\* exited with 1, after it logged a line of stderr and dropped another one
\* that holds the second entry of the spam list, and dropped a line of
\* stdout.
C36_Witness ==
    /\ rpc = "returned"
    /\ rret = WaitError(ExitWord(1))
    /\ Len(rfilter["stderr"]) = 2
    /\ rgiven["stderr"] = << <<"b", "a">>, <<"a">> >>
    /\ LoggedLines("stderr") = << <<"a">> >>
    /\ rfilter["stdout"] = << <<"a">> >>
    /\ rgiven["stdout"] # <<>>
    /\ LoggedLines("stdout") = <<>>

====
